---- MODULE Spec2Model ----
(***************************************************************************)
(* Model of aioradio.long_running_jobs.LongRunningJobs: submission         *)
(* (send_message), status lookup (check_job_status) and the worker loop    *)
(* (start_worker) over its two queue backends, the SQS queue and the pair  *)
(* of Redis lists "<job>-not-started" / "<job>-in-process".                *)
(*                                                                         *)
(* Several engine instances (processes) share one Redis and one queue.    *)
(* A step of a process is the code between two of its suspension points   *)
(* (the awaited SQS calls, the awaited job function, asyncio.sleep) or     *)
(* between two Redis commands whose order against the other processes      *)
(* matters; a process may also die inside a step, between an lpop and the  *)
(* rpush that follows it (RedisPullDies, SweepDies).                       *)
(*                                                                         *)
(* Time: the engine reads the clock only to compare an age with a limit    *)
(* (a Redis TTL, the SQS visibility timeout, time() - start_time > timeout)*)
(* and a process may be delayed for any duration between two calls, so the *)
(* moment a limit is passed is an event of the environment: StatusExpires, *)
(* CacheExpires, VisibilityElapses and TimeoutElapses.                     *)
(*                                                                         *)
(* The POST request to a callback_url is a task that the iteration creates *)
(* and never awaits (posts); whether and how it ends is up to the          *)
(* environment as well: PostSucceeds, PostFails.                           *)
(***************************************************************************)
EXTENDS Integers, Sequences, FiniteSets, TLC

\* ------------------------------------------------------------------ bounds
\* number of send_message calls
MaxSubmits == 2
\* number of times a limit of time is passed (a TTL, a job timeout)
MaxElapsed == 1
\* number of failures: a Redis / SQS call that raises, a process that dies
MaxFaults == 1
\* the range(10) of __verify_processing__
SweepBatch == 10
\* number of POST requests to a callback_url whose end is followed
MaxTasks == 2

\* the range(10) of start_worker: polling rounds between two sweeps
PullRounds == 10

Workers == {"w1", "w2"}
Uuids == 1..MaxSubmits

\* registered job names (self.job_names) and a name that is not registered
JobNames == {"job1", "job2"}
UnknownJob == "nojob"
\* job_name argument of send_message where one job is submitted to
JobArgs == {"job1", UnknownJob}

\* Python None, and a key that is absent from Redis
PyNone == "None"
NoRecord == [absent |-> TRUE]

\* cache_key argument of send_message: None or a string
CacheKeys == {"k1"}

\* ------------------------------------------------------------------ params
\* The params dicts that callers submit.  The handlers are those of
\* tests/long_running_jobs_test.py: job(params) is delay(**params), which
\* returns params['result'] and raises TypeError unless the keys of params
\* are exactly delay and result.
ParamsOk(v) == [delay |-> "1", result |-> v]
ParamsCallback(v) == [delay |-> "1", result |-> v, callback_url |-> "url"]
ParamsBad == [delay |-> "1"]

\* the (params, cache_key) pairs that callers submit
Requests == {
    <<ParamsOk("42"), PyNone>>,
    <<ParamsCallback("42"), PyNone>>,
    <<ParamsOk("42"), "k1">>,
    <<ParamsOk(PyNone), "k1">>,
    <<ParamsBad, "k1">> }

\* body['params'].pop('callback_url', None)
PopCallback(params) == [k \in (DOMAIN params) \ {"callback_url"} |-> params[k]]

\* body['params'].get('callback_url', '')
GetCallback(params) == IF "callback_url" \in DOMAIN params THEN params["callback_url"] ELSE ""

\* whether delay(**params) raises TypeError
JobRaises(params) == DOMAIN params # {"delay", "result"}

\* the value delay(**params) returns
JobResult(params) == params["result"]

\* orjson.dumps / orjson.loads of a result value: None is the text null
Dumps(v) == IF v = PyNone THEN "null" ELSE v
\* a read that hands out the stored text (use_json = False)
LoadsKeepsText(t) == t
Loads(t) == IF t = "null" THEN PyNone ELSE t

VARIABLES
    queue_service,  \* 'sqs' or 'redis', fixed at construction
    elapsed,        \* how many limits of time have been passed so far
    faults,         \* how many failures have happened so far
    status,         \* Redis hashes keyed by uuid (the StatusRecords)
    dedup,          \* Redis strings keyed by cache_key (the DedupEntries)
    not_started,    \* Redis lists <job_name>-not-started
    in_process,     \* Redis lists <job_name>-in-process
    sqs_queue,      \* messages of the SQS queue
    calls,          \* the send_message calls; call u generates uuid u
    wk,             \* the workers: position in start_worker and locals
    invoked,        \* per uuid, how often self.jobs[job_name][0] was called
    loop,           \* per worker, the position in the loops of start_worker
    api,            \* a call of the constructor or of build_cache_key
    posts           \* the tasks created for the POST requests to a callback_url

vars == <<queue_service, elapsed, faults, status, dedup, not_started, in_process, sqs_queue,
          calls, wk, invoked, loop, api, posts>>

\* a worker outside an iteration
IdleWorker == [pc |-> "idle", body |-> PyNone, data |-> PyNone, callback_url |-> "",
               ran |-> FALSE, job |-> PyNone]

\* a send_message call that has not been made
NoCall == [pc |-> "none"]

\* a worker whose position in the loops of start_worker is not followed: it
\* may poll any list and sweep at any time
FreeLoop == [at |-> "free"]

\* no call of the constructor or of build_cache_key
NoApi == [op |-> "none"]

Init ==
    /\ queue_service \in {"sqs", "redis"}
    /\ elapsed = 0
    /\ faults = 0
    /\ status = [u \in Uuids |-> NoRecord]
    /\ dedup = [k \in CacheKeys |-> NoRecord]
    /\ not_started = [j \in JobNames |-> <<>>]
    /\ in_process = [j \in JobNames |-> <<>>]
    /\ sqs_queue = <<>>
    /\ calls = [u \in Uuids |-> NoCall]
    /\ wk = [w \in Workers |-> IdleWorker]
    /\ invoked = [u \in Uuids |-> 0]
    /\ loop = [w \in Workers |-> FreeLoop]
    /\ api = NoApi
    /\ posts = <<>>

\* ------------------------------------------------------------------ cache
\* Redis.hmset(key, items, expire): HSET merges the fields into the hash
\* (and EXPIRE restarts its TTL)
HmSet(u, items) ==
    [status EXCEPT ![u] = IF @ = NoRecord THEN items ELSE items @@ @]

\* a cache that never has the key
CacheGetMisses(key) == PyNone

\* Redis.get(key): None for a missing key, else orjson.loads of the text
CacheGet(key) == IF dedup[key] = NoRecord THEN PyNone ELSE Loads(dedup[key].text)

\* Redis.set(key, value, expire)
CacheSet(key, value) ==
    [dedup EXCEPT ![key] = [text |-> Dumps(value)]]

\* ------------------------------------------------------------------ send_message
\* the first unused uuid (uuid4 never repeats)
FreshUuid == CHOOSE u \in Uuids : calls[u] = NoCall /\ \A v \in Uuids : calls[v] = NoCall => u <= v

\* the items dict of send_message, also the message body
Envelope(u, job_name, params, cache_key) ==
    [uuid |-> u, params |-> params, cache_key |-> cache_key, job_name |-> job_name]

\* a registry that accepts every job name
RegisteredAny(job_name) == TRUE

\* job_name in self.job_names
Registered(job_name) == job_name \in JobNames

\* send_message with a job name that is not registered: ValueError is raised
\* before a uuid is generated
SendUnknownJob(job_name) ==
    /\ ~Registered(job_name)
    /\ \E u \in Uuids : calls[u] = NoCall
    /\ calls' = [calls EXCEPT ![FreshUuid] = [pc |-> "raised", result |-> <<>>]]
    /\ UNCHANGED <<posts, api, loop, queue_service, elapsed, faults, status, dedup, not_started, in_process, sqs_queue,
                   wk, invoked>>

\* send_message up to and including the push to the queue
SendEnqueue(job_name, params, cache_key) ==
    /\ Registered(job_name)
    /\ \E u \in Uuids : calls[u] = NoCall
    /\ LET u == FreshUuid
           items == Envelope(u, job_name, params, cache_key)
       IN  /\ calls' = [calls EXCEPT ![u] = [pc |-> "queued", items |-> items, result |-> <<>>]]
           /\ IF queue_service = "sqs"
              THEN /\ sqs_queue' = Append(sqs_queue, [body |-> items, in_flight |-> FALSE])
                   /\ UNCHANGED not_started
              ELSE /\ not_started' = [j \in DOMAIN not_started \cup {job_name} |->
                        IF j = job_name
                        THEN Append(IF j \in DOMAIN not_started THEN not_started[j] ELSE <<>>, items)
                        ELSE not_started[j]]
                   /\ UNCHANGED sqs_queue
    /\ UNCHANGED <<posts, api, loop, queue_service, elapsed, faults, status, dedup, in_process, wk, invoked>>

\* send_message when the push to the queue raises: the except branch
SendEnqueueFails(job_name, params, cache_key) ==
    /\ faults < MaxFaults
    /\ faults' = faults + 1
    /\ Registered(job_name)
    /\ \E u \in Uuids : calls[u] = NoCall
    /\ LET u == FreshUuid
       IN  calls' = [calls EXCEPT ![u] = [pc |-> "returned",
                                          result |-> [error |-> "send failed"]]]
    /\ UNCHANGED <<posts, api, loop, queue_service, elapsed, status, dedup, not_started, in_process, sqs_queue,
                   wk, invoked>>

\* send_message from the initial hmset to the return
SendStatus(u) ==
    /\ calls[u].pc = "queued"
    /\ status' = HmSet(u, calls[u].items @@ [job_done |-> FALSE, results |-> PyNone])
    /\ calls' = [calls EXCEPT ![u] = [@ EXCEPT !.pc = "returned", !.result = [uuid |-> u]]]
    /\ UNCHANGED <<posts, api, loop, queue_service, elapsed, faults, dedup, not_started, in_process, sqs_queue,
                   wk, invoked>>

\* a send_message that lets the exception of the initial hmset through
SendStatusRaises(u) ==
    /\ faults < MaxFaults
    /\ faults' = faults + 1
    /\ calls[u].pc = "queued"
    /\ calls' = [calls EXCEPT ![u] = [@ EXCEPT !.pc = "raised"]]
    /\ UNCHANGED <<posts, api, loop, queue_service, elapsed, status, dedup, not_started, in_process, sqs_queue,
                   wk, invoked>>

\* a send_message that takes its envelope back off the queue when the initial
\* hmset raises
SendStatusFailsUnqueues(u) ==
    /\ faults < MaxFaults
    /\ faults' = faults + 1
    /\ calls[u].pc = "queued"
    /\ calls' = [calls EXCEPT ![u] = [@ EXCEPT !.pc = "returned", !.result = [error |-> "hmset failed"]]]
    /\ sqs_queue' = SelectSeq(sqs_queue, LAMBDA m : m.body.uuid # u)
    /\ not_started' = [j \in DOMAIN not_started |-> SelectSeq(not_started[j], LAMBDA m : m.uuid # u)]
    /\ UNCHANGED <<posts, api, loop, queue_service, elapsed, status, dedup, in_process, wk, invoked>>

\* send_message when the initial hmset raises: the except branch
SendStatusFails(u) ==
    /\ faults < MaxFaults
    /\ faults' = faults + 1
    /\ calls[u].pc = "queued"
    /\ calls' = [calls EXCEPT ![u] = [@ EXCEPT !.pc = "returned", !.result = [error |-> "hmset failed"]]]
    /\ UNCHANGED <<posts, api, loop, queue_service, elapsed, status, dedup, not_started, in_process, sqs_queue,
                   wk, invoked>>

\* ------------------------------------------------------------------ check_job_status
\* a status lookup that takes a missing record for a pending job
StatusWithoutError(u) ==
    LET result == [uuid |-> u, job_done |-> FALSE]
        data == status[u]
    IN  IF data # NoRecord /\ data.job_done
        THEN [result EXCEPT !.job_done = TRUE] @@ [results |-> data.results]
        ELSE result

\* check_job_status(uuid)
check_job_status(u) ==
    LET result == [uuid |-> u, job_done |-> FALSE]
        data == status[u]
    IN  IF data # NoRecord
        THEN IF data.job_done
             THEN [result EXCEPT !.job_done = TRUE] @@ [results |-> data.results]
             ELSE result
        ELSE result @@ [error |-> "Cannot find uuid in Redis Cache"]

\* ------------------------------------------------------------------ worker loop
\* the locals of worker w
Body(w) == wk[w].body
Key(w) == wk[w].body.cache_key
Uuid(w) == wk[w].body.uuid

\* an iteration that calls the job function without reading the cache
LookupSkipped(w, job_name, body) ==
    LET taken == [body EXCEPT !.params = PopCallback(@)]
        local == [IdleWorker EXCEPT !.body = taken, !.job = job_name,
                                    !.callback_url = GetCallback(body.params)]
    IN  /\ wk' = [wk EXCEPT ![w] = [local EXCEPT !.pc = "run", !.ran = TRUE]]
        /\ invoked' = [invoked EXCEPT ![body.uuid] = @ + 1]

\* the lines shared by both backends after the message is taken: callback_url
\* is taken out of params, then data = None if key is None else await
\* self.cache.get(key), and on a miss the job function is called
LookupThenRun(w, job_name, body) ==
    LET key == body.cache_key
        data == IF key = PyNone THEN PyNone ELSE CacheGet(key)
        taken == [body EXCEPT !.params = PopCallback(@)]
        local == [IdleWorker EXCEPT !.body = taken, !.job = job_name,
                                    !.callback_url = GetCallback(body.params)]
    IN  IF data = PyNone
        THEN /\ wk' = [wk EXCEPT ![w] = [local EXCEPT !.pc = "run", !.ran = TRUE]]
             /\ invoked' = [invoked EXCEPT ![body.uuid] = @ + 1]
        ELSE /\ wk' = [wk EXCEPT ![w] = [local EXCEPT !.pc = "post", !.data = data]]
             /\ UNCHANGED invoked

\* body['start_time'] = time()
Stamp(body) == [start_time |-> "recent"] @@ body

\* a pull that takes the newest message: rpop instead of lpop
RedisTakeFromTail(w, job_name) ==
    /\ queue_service = "redis"
    /\ wk[w].pc = "idle"
    /\ not_started[job_name] # <<>>
    /\ LET msg == not_started[job_name][Len(not_started[job_name])]
           body == Stamp([msg EXCEPT !.params = PopCallback(@)])
       IN  /\ not_started' = [not_started EXCEPT ![job_name] = SubSeq(@, 1, Len(@) - 1)]
           /\ in_process' = [in_process EXCEPT ![job_name] = Append(@, body)]
           /\ LookupThenRun(w, job_name, Stamp(msg))
    /\ UNCHANGED <<posts, api, queue_service, elapsed, faults, status, dedup, sqs_queue, calls>>

\* __redis_pull_messages_and_run_jobs__ up to the call of the job function:
\* lpop of <job_name>-not-started (an empty list ends the iteration), the
\* stamped body is pushed to <job_name>-in-process and the cache is read
RedisTake(w, job_name) ==
    /\ queue_service = "redis"
    /\ wk[w].pc = "idle"
    /\ not_started[job_name] # <<>>
    /\ LET msg == Head(not_started[job_name])
           body == Stamp([msg EXCEPT !.params = PopCallback(@)])
       IN  /\ not_started' = [not_started EXCEPT ![job_name] = Tail(@)]
           /\ in_process' = [in_process EXCEPT ![job_name] = Append(@, body)]
           /\ LookupThenRun(w, job_name, Stamp(msg))
    /\ UNCHANGED <<posts, api, queue_service, elapsed, faults, status, dedup, sqs_queue, calls>>

\* RedisTake by a worker whose position in start_worker is not followed
RedisPull(w, job_name) == RedisTake(w, job_name) /\ UNCHANGED loop

\* the process dies between the lpop and the rpush of RedisPull
RedisPullDies(w, job_name) ==
    /\ faults < MaxFaults
    /\ faults' = faults + 1
    /\ queue_service = "redis"
    /\ wk[w].pc = "idle"
    /\ \E v \in Workers \ {w} : wk[v].pc # "dead"
    /\ not_started[job_name] # <<>>
    /\ not_started' = [not_started EXCEPT ![job_name] = Tail(@)]
    /\ wk' = [wk EXCEPT ![w] = [IdleWorker EXCEPT !.pc = "dead"]]
    /\ UNCHANGED <<posts, api, loop, queue_service, elapsed, status, dedup, in_process, sqs_queue, calls,
                   invoked>>

\* indexes of the SQS messages that receive_message may return
Visible == {i \in 1..Len(sqs_queue) : ~sqs_queue[i].in_flight}

\* the sequence without its entries for uuid u
RECURSIVE Without(_, _)
Without(q, u) ==
    IF q = <<>> THEN <<>>
    ELSE IF Head(q).body.uuid = u THEN Without(Tail(q), u)
    ELSE <<Head(q)>> \o Without(Tail(q), u)

\* a receive that deletes the message as soon as it is handed out
SqsReceiveDeletes(w) ==
    /\ queue_service = "sqs"
    /\ wk[w].pc = "idle"
    /\ \E i \in Visible :
        LET m == sqs_queue[i]
        IN  /\ sqs_queue' = Without(sqs_queue, m.body.uuid)
            /\ LookupThenRun(w, m.body.job_name, m.body)
    /\ UNCHANGED <<posts, api, loop, queue_service, elapsed, faults, status, dedup, not_started, in_process, calls>>

\* __sqs_pull_messages_and_run_jobs__: get_messages hides the message for
\* longest_job_timeout; then callback_url is taken out and the cache is read
SqsReceive(w) ==
    /\ queue_service = "sqs"
    /\ wk[w].pc = "idle"
    /\ \E i \in Visible :
        LET m == sqs_queue[i]
        IN  /\ sqs_queue' = [sqs_queue EXCEPT ![i] = [@ EXCEPT !.in_flight = TRUE]]
            /\ LookupThenRun(w, m.body.job_name, m.body)
    /\ UNCHANGED <<posts, api, loop, queue_service, elapsed, faults, status, dedup, not_started, in_process, calls>>

\* a job function whose result is lost: the iteration goes on with the delay
HandlerReturnsDelay(w) ==
    /\ wk[w].pc = "run"
    /\ ~JobRaises(Body(w).params)
    /\ LET data == Body(w).params.delay
       IN  /\ wk' = [wk EXCEPT ![w] = [@ EXCEPT !.pc = "post", !.data = data]]
           /\ IF Key(w) # PyNone THEN dedup' = CacheSet(Key(w), data) ELSE UNCHANGED dedup
    /\ UNCHANGED <<posts, api, loop, queue_service, elapsed, faults, status, not_started, in_process, sqs_queue, calls,
                   invoked>>

\* the job function returns; with a cache_key the result is cached
HandlerReturns(w) ==
    /\ wk[w].pc = "run"
    /\ ~JobRaises(Body(w).params)
    /\ LET data == JobResult(Body(w).params)
       IN  /\ wk' = [wk EXCEPT ![w] = [@ EXCEPT !.pc = "post", !.data = data]]
           /\ IF Key(w) # PyNone THEN dedup' = CacheSet(Key(w), data) ELSE UNCHANGED dedup
    /\ UNCHANGED <<posts, api, loop, queue_service, elapsed, faults, status, not_started, in_process, sqs_queue, calls,
                   invoked>>

\* the job function returns and self.cache.set answers falsy: IOError leaves
\* the iteration
CacheSetFails(w) ==
    /\ faults < MaxFaults
    /\ faults' = faults + 1
    /\ wk[w].pc = "run"
    /\ ~JobRaises(Body(w).params)
    /\ Key(w) # PyNone
    /\ wk' = [wk EXCEPT ![w] = [IdleWorker EXCEPT !.pc = "backoff"]]
    /\ UNCHANGED <<posts, api, loop, queue_service, elapsed, status, dedup, not_started, in_process, sqs_queue,
                   calls, invoked>>

\* an iteration that catches the exception of the job function, records it
\* and goes on as if the message were handled
HandlerRaisesRecorded(w) ==
    /\ wk[w].pc = "run"
    /\ JobRaises(Body(w).params)
    /\ status' = HmSet(Uuid(w), [error |-> "TypeError", job_done |-> TRUE] @@ Body(w))
    /\ sqs_queue' = Without(sqs_queue, Uuid(w))
    /\ wk' = [wk EXCEPT ![w] = [IdleWorker EXCEPT !.pc = "backoff"]]
    /\ UNCHANGED <<posts, api, loop, queue_service, elapsed, faults, dedup, not_started, in_process, calls, invoked>>

\* an iteration that stores the exception of the job function under the
\* cache_key before it leaves
HandlerRaisesCached(w) ==
    /\ wk[w].pc = "run"
    /\ JobRaises(Body(w).params)
    /\ IF Key(w) # PyNone THEN dedup' = CacheSet(Key(w), "TypeError") ELSE UNCHANGED dedup
    /\ wk' = [wk EXCEPT ![w] = [IdleWorker EXCEPT !.pc = "backoff"]]
    /\ UNCHANGED <<posts, api, loop, queue_service, elapsed, faults, status, not_started, in_process, sqs_queue,
                   calls, invoked>>

\* the job function raises: the exception leaves the iteration, start_worker
\* prints it and sleeps
HandlerRaises(w) ==
    /\ wk[w].pc = "run"
    /\ JobRaises(Body(w).params)
    /\ wk' = [wk EXCEPT ![w] = [IdleWorker EXCEPT !.pc = "backoff"]]
    /\ UNCHANGED <<posts, api, loop, queue_service, elapsed, faults, status, dedup, not_started, in_process, sqs_queue,
                   calls, invoked>>

\* await asyncio.sleep(30) is over and the while loop goes on
Resume(w) ==
    /\ wk[w].pc = "backoff"
    /\ wk' = [wk EXCEPT ![w] = IdleWorker]
    /\ UNCHANGED <<posts, api, loop, queue_service, elapsed, faults, status, dedup, not_started, in_process, sqs_queue,
                   calls, invoked>>

\* the POST request to a callback_url: a task that create_task has scheduled
\* and nothing awaits
Task(u, data) == [uuid |-> u, results |-> data, state |-> "pending"]

\* if callback_url: create_task(self.httpx_client.post(callback_url, ...))
CreateTask(w) ==
    IF wk[w].callback_url # "" THEN Append(posts, Task(Uuid(w), wk[w].data)) ELSE posts

\* an iteration that awaits the POST request: when the request fails, the
\* exception leaves the iteration before the status is written
StatusWriteAwaitsPost(w) ==
    /\ wk[w].pc = "post"
    /\ \E outcome \in {"ok", "failed"} :
        /\ posts' = IF wk[w].callback_url # ""
                    THEN Append(posts, [Task(Uuid(w), wk[w].data) EXCEPT !.state = outcome])
                    ELSE posts
        /\ IF wk[w].callback_url # "" /\ outcome = "failed"
           THEN /\ wk' = [wk EXCEPT ![w] = [IdleWorker EXCEPT !.pc = "backoff"]]
                /\ UNCHANGED status
           ELSE /\ status' = HmSet(Uuid(w), [results |-> wk[w].data, job_done |-> TRUE] @@ Body(w))
                /\ wk' = [wk EXCEPT ![w] =
                            IF queue_service = "sqs" THEN [@ EXCEPT !.pc = "ack"] ELSE IdleWorker]
    /\ UNCHANGED <<api, loop, queue_service, elapsed, faults, dedup, not_started, in_process, sqs_queue, calls,
                   invoked>>

\* the hmset of the results; on the Redis backend the iteration ends here
StatusWrite(w) ==
    /\ wk[w].pc = "post"
    /\ posts' = CreateTask(w)
    /\ status' = HmSet(Uuid(w), [results |-> wk[w].data, job_done |-> TRUE] @@ Body(w))
    /\ wk' = [wk EXCEPT ![w] = IF queue_service = "sqs" THEN [@ EXCEPT !.pc = "ack"] ELSE IdleWorker]
    /\ UNCHANGED <<api, loop, queue_service, elapsed, faults, dedup, not_started, in_process, sqs_queue, calls,
                   invoked>>

\* the hmset of the results raises
StatusWriteFails(w) ==
    /\ faults < MaxFaults
    /\ faults' = faults + 1
    /\ wk[w].pc = "post"
    /\ posts' = CreateTask(w)
    /\ wk' = [wk EXCEPT ![w] = [IdleWorker EXCEPT !.pc = "backoff"]]
    /\ UNCHANGED <<api, loop, queue_service, elapsed, status, dedup, not_started, in_process, sqs_queue,
                   calls, invoked>>

\* sqs.delete_messages
SqsDelete(w) ==
    /\ wk[w].pc = "ack"
    /\ sqs_queue' = Without(sqs_queue, Uuid(w))
    /\ wk' = [wk EXCEPT ![w] = IdleWorker]
    /\ UNCHANGED <<posts, api, loop, queue_service, elapsed, faults, status, dedup, not_started, in_process, calls,
                   invoked>>

\* ------------------------------------------------------------------ __verify_processing__
\* the comparison the wrong way round
TimedOutInverted(msg) == msg.start_time # "overdue"

\* (time() - body['start_time']) > timeout
TimedOut(msg) == msg.start_time = "overdue"

\* a round that drops every entry whose job is not done and timed out
SweepRoundDrops(lists) ==
    LET msg == Head(lists[1])
        rest == Tail(lists[1])
    IN  IF status[msg.uuid] = NoRecord THEN <<rest, lists[2]>>
        ELSE IF ~status[msg.uuid].job_done
        THEN IF TimedOut(msg) THEN <<rest, lists[2]>>
             ELSE <<Append(rest, msg), lists[2]>>
        ELSE <<rest, lists[2]>>

\* a round that pushes the entry back with lpush: to the head of in-process
SweepRoundPushesFront(lists) ==
    LET msg == Head(lists[1])
        rest == Tail(lists[1])
    IN  IF status[msg.uuid] = NoRecord THEN <<rest, lists[2]>>
        ELSE IF ~status[msg.uuid].job_done
        THEN IF TimedOut(msg) THEN <<rest, Append(lists[2], msg)>>
             ELSE <<(<<msg>> \o rest), lists[2]>>
        ELSE <<rest, lists[2]>>

\* a round that requeues a copy: the entry that timed out is pushed to
\* not-started and stays in in-process
SweepRoundKeepsCopy(lists) ==
    LET msg == Head(lists[1])
        rest == Tail(lists[1])
    IN  IF status[msg.uuid] = NoRecord THEN <<rest, lists[2]>>
        ELSE IF ~status[msg.uuid].job_done
        THEN IF TimedOut(msg) THEN <<Append(rest, msg), Append(lists[2], msg)>>
             ELSE <<Append(rest, msg), lists[2]>>
        ELSE <<rest, lists[2]>>

\* a round that takes a missing StatusRecord for a job that is not done: the
\* entry is requeued when it timed out
SweepRoundRequeuesMissing(lists) ==
    LET msg == Head(lists[1])
        rest == Tail(lists[1])
    IN  IF status[msg.uuid] = NoRecord \/ ~status[msg.uuid].job_done
        THEN IF TimedOut(msg) \/ status[msg.uuid] = NoRecord
             THEN <<rest, Append(lists[2], msg)>>
             ELSE <<Append(rest, msg), lists[2]>>
        ELSE <<rest, lists[2]>>

\* one round of the for loop on the lists <<in-process, not-started>>: lpop,
\* hget of job_done, then the entry is dropped (record missing, or job done),
\* pushed to not-started (timed out) or pushed back to in-process
SweepRound(lists) ==
    LET msg == Head(lists[1])
        rest == Tail(lists[1])
    IN  IF status[msg.uuid] = NoRecord THEN <<rest, lists[2]>>
        ELSE IF ~status[msg.uuid].job_done
        THEN IF TimedOut(msg) THEN <<rest, Append(lists[2], msg)>>
             ELSE <<Append(rest, msg), lists[2]>>
        ELSE <<rest, lists[2]>>

\* n rounds of the for loop, which breaks on an empty in-process list
RECURSIVE SweepLoop(_, _)
SweepLoop(lists, n) ==
    IF n = 0 \/ lists[1] = <<>> THEN lists ELSE SweepLoop(SweepRound(lists), n - 1)

\* __verify_processing__(job_name) on a list that is not empty
VerifyProcessing(w, job_name) ==
    /\ queue_service = "redis"
    /\ wk[w].pc = "idle"
    /\ in_process[job_name] # <<>>
    /\ LET lists == SweepLoop(<<in_process[job_name], not_started[job_name]>>, SweepBatch)
       IN  /\ in_process' = [in_process EXCEPT ![job_name] = lists[1]]
           /\ not_started' = [not_started EXCEPT ![job_name] = lists[2]]
    /\ UNCHANGED <<posts, api, queue_service, elapsed, faults, status, dedup, sqs_queue, calls, wk, invoked>>

\* VerifyProcessing by a worker whose position in start_worker is not followed
Sweep(w, job_name) == VerifyProcessing(w, job_name) /\ UNCHANGED loop

\* the process dies in __verify_processing__ after n full rounds, between the
\* lpop and the rpush of the next round
SweepDies(w, job_name, n) ==
    /\ faults < MaxFaults
    /\ faults' = faults + 1
    /\ queue_service = "redis"
    /\ wk[w].pc = "idle"
    /\ \E v \in Workers \ {w} : wk[v].pc # "dead"
    /\ n < SweepBatch
    /\ LET lists == SweepLoop(<<in_process[job_name], not_started[job_name]>>, n)
       IN  /\ lists[1] # <<>>
           /\ in_process' = [in_process EXCEPT ![job_name] = Tail(lists[1])]
           /\ not_started' = [not_started EXCEPT ![job_name] = lists[2]]
    /\ wk' = [wk EXCEPT ![w] = [IdleWorker EXCEPT !.pc = "dead"]]
    /\ UNCHANGED <<posts, api, loop, queue_service, elapsed, status, dedup, sqs_queue, calls, invoked>>

\* the process of worker w dies
Crash(w) ==
    /\ faults < MaxFaults
    /\ faults' = faults + 1
    /\ wk[w].pc # "dead"
    /\ \E v \in Workers \ {w} : wk[v].pc # "dead"
    /\ wk' = [wk EXCEPT ![w] = [@ EXCEPT !.pc = "dead"]]
    /\ UNCHANGED <<posts, api, loop, queue_service, elapsed, status, dedup, not_started, in_process, sqs_queue,
                   calls, invoked>>

\* ------------------------------------------------------------------ time
\* the TTL of the status hash of uuid u runs out
StatusExpires(u) ==
    /\ elapsed < MaxElapsed
    /\ elapsed' = elapsed + 1
    /\ status[u] # NoRecord
    /\ status' = [status EXCEPT ![u] = NoRecord]
    /\ UNCHANGED <<posts, api, loop, queue_service, faults, dedup, not_started, in_process, sqs_queue, calls,
                   wk, invoked>>

\* the TTL of the cached result of cache_key k runs out
CacheExpires(k) ==
    /\ elapsed < MaxElapsed
    /\ elapsed' = elapsed + 1
    /\ dedup[k] # NoRecord
    /\ dedup' = [dedup EXCEPT ![k] = NoRecord]
    /\ UNCHANGED <<posts, api, loop, queue_service, faults, status, not_started, in_process, sqs_queue, calls,
                   wk, invoked>>

\* the visibility timeout of a received SQS message runs out
VisibilityElapses(i) ==
    /\ elapsed < MaxElapsed
    /\ i \in 1..Len(sqs_queue)
    /\ sqs_queue[i].in_flight
    /\ sqs_queue' = [sqs_queue EXCEPT ![i] = [@ EXCEPT !.in_flight = FALSE]]
    /\ elapsed' = elapsed + 1
    /\ UNCHANGED <<posts, api, loop, queue_service, faults, status, dedup, not_started, in_process, calls, wk, invoked>>

\* a job timeout that is enforced on the handler: when the entry becomes
\* overdue, the iteration that runs its uuid is cancelled
TimeoutElapsesCancels(job_name, i) ==
    /\ elapsed < MaxElapsed
    /\ i \in 1..Len(in_process[job_name])
    /\ in_process[job_name][i].start_time = "recent"
    /\ in_process' = [in_process EXCEPT ![job_name][i] = [@ EXCEPT !.start_time = "overdue"]]
    /\ elapsed' = elapsed + 1
    /\ wk' = [w \in Workers |->
                IF wk[w].pc = "run" /\ wk[w].body.uuid = in_process[job_name][i].uuid
                THEN [IdleWorker EXCEPT !.pc = "backoff"] ELSE wk[w]]
    /\ UNCHANGED <<posts, api, loop, queue_service, faults, status, dedup, not_started, sqs_queue, calls, invoked>>

\* the entry at position i of <job_name>-in-process becomes older than the
\* job timeout
TimeoutElapses(job_name, i) ==
    /\ elapsed < MaxElapsed
    /\ i \in 1..Len(in_process[job_name])
    /\ in_process[job_name][i].start_time = "recent"
    /\ in_process' = [in_process EXCEPT ![job_name][i] = [@ EXCEPT !.start_time = "overdue"]]
    /\ elapsed' = elapsed + 1
    /\ UNCHANGED <<posts, api, loop, queue_service, faults, status, dedup, not_started, sqs_queue, calls, wk, invoked>>

Next ==
    \/ \E j \in JobArgs : SendUnknownJob(j)
    \/ \E j \in JobArgs, r \in Requests : SendEnqueue(j, r[1], r[2])
    \/ \E j \in JobArgs, r \in Requests : SendEnqueueFails(j, r[1], r[2])
    \/ \E u \in Uuids : SendStatus(u)
    \/ \E u \in Uuids : SendStatusFails(u)
    \/ \E w \in Workers, j \in JobNames : RedisPull(w, j)
    \/ \E w \in Workers, j \in JobNames : RedisPullDies(w, j)
    \/ \E w \in Workers : SqsReceive(w)
    \/ \E w \in Workers : HandlerReturns(w)
    \/ \E w \in Workers : CacheSetFails(w)
    \/ \E w \in Workers : HandlerRaises(w)
    \/ \E w \in Workers : Resume(w)
    \/ \E w \in Workers : StatusWrite(w)
    \/ \E w \in Workers : StatusWriteFails(w)
    \/ \E w \in Workers : SqsDelete(w)
    \/ \E w \in Workers, j \in JobNames : Sweep(w, j)
    \/ \E w \in Workers, j \in JobNames, n \in 0..(SweepBatch - 1) : SweepDies(w, j, n)
    \/ \E w \in Workers : Crash(w)
    \/ \E u \in Uuids : StatusExpires(u)
    \/ \E k \in CacheKeys : CacheExpires(k)
    \/ \E i \in 1..MaxSubmits : VisibilityElapses(i)
    \/ \E j \in JobNames, i \in 1..MaxSubmits : TimeoutElapses(j, i)

Spec == Init /\ [][Next]_vars

\* ------------------------------------------------------------------ properties
\* the params the job function of uuid u is called with
JobParams(u) == PopCallback(calls[u].items.params)

\* uuid u was handed to a queue by send_message
Enqueued(u) == calls[u].pc \in {"queued", "returned"} /\ "items" \in DOMAIN calls[u]

\* send_message returned uuid u to its caller
Returned(u) == calls[u].pc = "returned" /\ DOMAIN calls[u].result = {"uuid"}

\* the StatusRecord of uuid u exists and says job_done
Done(u) == status[u] # NoRecord /\ status[u].job_done

\* the StatusRecord of uuid u exists and says not job_done
Pending(u) == status[u] # NoRecord /\ ~status[u].job_done

\* a message of uuid u is in sequence q
Holds(q, u) == \E i \in 1..Len(q) : q[i].uuid = u

\* the envelope of uuid u can still reach a job function or a status write:
\* it is in a queue, or a running worker holds it
InFlight(u) ==
    \/ \E j \in DOMAIN not_started : Holds(not_started[j], u)
    \/ \E j \in DOMAIN in_process : Holds(in_process[j], u)
    \/ \E i \in 1..Len(sqs_queue) : sqs_queue[i].body.uuid = u
    \/ \E w \in Workers : wk[w].pc \in {"run", "post"} /\ Uuid(w) = u

\* C1, as the spec states it: every uuid that send_message returned, for a
\* job function that returns, gets job_done = true while its StatusRecord is
\* unexpired and no process or call has failed.  So in every state such a
\* uuid whose record still says job_done = false has its envelope in a queue
\* or in the hands of a running worker: nothing else can set job_done.
C1_ReturnedJobGetsDone ==
    \A u \in Uuids :
        (faults = 0 /\ Returned(u) /\ ~JobRaises(JobParams(u)) /\ Pending(u)) => InFlight(u)

\* C4, as the spec states it: after send_message has created the
\* StatusRecord of a uuid, the record is changed only from job_done = false to
\* job_done = true; a record that says job_done = true never says
\* job_done = false later, as long as it exists.
C4_StatusWrittenOnce ==
    [][\A u \in Uuids :
        (status[u] # NoRecord /\ status'[u] # NoRecord /\ status'[u] # status[u])
            => (~status[u].job_done /\ status'[u].job_done)]_vars

\* C2, as the spec states it: when the job function raises, the iteration
\* records job_done = true with an error string in the StatusRecord and takes
\* the message off the queue, so the job function is not called for that
\* envelope again.
C2_FailureRecordedAndAcknowledged ==
    [][\A w \in Workers :
        (wk[w].pc = "run" /\ JobRaises(Body(w).params) /\ wk'[w].pc = "backoff")
            => /\ status'[Uuid(w)] # NoRecord
               /\ status'[Uuid(w)].job_done
               /\ "error" \in DOMAIN status'[Uuid(w)]
               /\ ~\E i \in 1..Len(sqs_queue') : sqs_queue'[i].body.uuid = Uuid(w)
               /\ ~\E j \in JobNames : Holds(in_process'[j], Uuid(w))]_vars

\* C2, amended: when the job function raises, the exception leaves the
\* iteration and start_worker backs off: the iteration writes neither the
\* StatusRecord nor the cached result and takes nothing off the SQS queue or
\* the in-process list, so the message stays there for redelivery.
C2_FailureLeavesMessage ==
    [][\A w \in Workers :
        (wk[w].pc = "run" /\ JobRaises(Body(w).params) /\ wk'[w] # wk[w] /\ wk'[w].pc # "dead")
            => /\ wk'[w].pc = "backoff"
               /\ UNCHANGED <<status, dedup, sqs_queue, not_started, in_process>>]_vars

\* C2, witness: no call or process has failed, a worker backs off after the
\* job function raised, the StatusRecord still says job_done = false and the
\* job function runs a second time for the same envelope
C2_Witness ==
    \E u \in Uuids :
        /\ Enqueued(u) /\ JobRaises(JobParams(u)) /\ Pending(u)
        /\ faults = 0 /\ invoked[u] = 2
        /\ \E w \in Workers : wk[w].pc = "run" /\ Uuid(w) = u
        /\ \E w \in Workers : wk[w].pc = "backoff"

\* a worker takes a message from the queue in this step
Takes(w) == wk[w].pc = "idle" /\ wk'[w].pc \in {"run", "post"}

\* C3, as the spec states it: a worker that takes an envelope whose cache_key
\* has a DedupEntry does not call the job function, and writes the stored
\* result to the StatusRecord with job_done = true.
C3_PresentEntrySkipsJob ==
    [][\A w \in Workers :
        (Takes(w) /\ wk'[w].body.cache_key # PyNone /\ dedup[wk'[w].body.cache_key] # NoRecord)
            => (invoked' = invoked /\ wk'[w].pc = "post")]_vars

\* C3, as the code has it: a worker that takes an envelope whose cache_key
\* has a DedupEntry holding a result other than null does not call the job
\* function and keeps the stored result; the status write that ends such an
\* iteration puts that result into the StatusRecord with job_done = true.
C3_NonNullEntrySkipsJob ==
    [][\A w \in Workers :
        /\ (Takes(w) /\ wk'[w].body.cache_key # PyNone
                /\ dedup[wk'[w].body.cache_key] # NoRecord
                /\ dedup[wk'[w].body.cache_key].text # "null")
            => /\ invoked' = invoked
               /\ wk'[w].pc = "post"
               /\ ~wk'[w].ran
               /\ wk'[w].data = Loads(dedup[wk'[w].body.cache_key].text)
        /\ (wk[w].pc = "post" /\ ~wk[w].ran /\ wk'[w].pc \in {"idle", "ack"})
            => /\ status'[Uuid(w)] # NoRecord
               /\ status'[Uuid(w)].job_done
               /\ status'[Uuid(w)].results = wk[w].data]_vars

\* C3, witness: a StatusRecord says job_done with a result although the job
\* function was never called for its uuid
C3_Witness ==
    \E u \in Uuids : Done(u) /\ invoked[u] = 0 /\ status[u].results = "42"

\* C6: check_job_status of a uuid without StatusRecord (never submitted, not
\* yet written, or expired) returns the error indicator, and it returns the
\* error indicator for no uuid that has a StatusRecord: a reply of
\* job_done = false without error is given only for an existing record.
C6_MissingRecordIsReported ==
    \A u \in Uuids :
        LET result == check_job_status(u)
        IN  /\ (status[u] = NoRecord) <=> ("error" \in DOMAIN result)
            /\ status[u] = NoRecord => (~result.job_done /\ "results" \notin DOMAIN result)

\* C6, witness: send_message returned the uuid, its StatusRecord has expired
\* and check_job_status reports the error
C6_Witness ==
    \E u \in Uuids :
        Returned(u) /\ status[u] = NoRecord /\ elapsed > 0 /\ "error" \in DOMAIN check_job_status(u)

\* the results a StatusRecord of uuid u may hold: what the job function
\* returns for the params submitted under u, or under a uuid that shares its
\* cache_key
ResultsFor(u) ==
    {JobResult(JobParams(v)) : v \in {v \in Uuids :
        /\ Enqueued(v)
        /\ ~JobRaises(JobParams(v))
        /\ v = u \/ (calls[u].items.cache_key # PyNone
                        /\ calls[v].items.cache_key = calls[u].items.cache_key)}}

\* C7: when check_job_status says job_done = true, its results are what the
\* job function returns for the params submitted under that uuid, or the
\* cached result of its cache_key; without job_done there are no results.
C7_ResultsAreTheJobsResult ==
    \A u \in Uuids :
        LET result == check_job_status(u)
        IN  /\ result.job_done => (Enqueued(u) /\ result.results \in ResultsFor(u))
            /\ ~result.job_done => "results" \notin DOMAIN result

\* C7, witness: check_job_status returns job_done with the result 42 of a job
\* function that was called for this uuid
C7_Witness ==
    \E u \in Uuids :
        /\ check_job_status(u).job_done /\ check_job_status(u).results = "42"
        /\ invoked[u] = 1 /\ calls[u].items.cache_key = PyNone

Queued ==
    {sqs_queue[i].body : i \in 1..Len(sqs_queue)}
        \cup UNION {{not_started[j][i] : i \in 1..Len(not_started[j])} : j \in DOMAIN not_started}

\* C9: send_message with a job name that is not registered raises and changes
\* neither a queue nor the cache; no envelope with such a job name is ever in
\* a queue.
C9_UnknownJobFailsFast ==
    /\ [](/\ \A m \in Queued : m.job_name \in JobNames
          /\ DOMAIN not_started = JobNames
          /\ \A u \in Uuids : calls[u].pc = "raised" => ~Enqueued(u) /\ calls[u].result = <<>>)
    /\ [][\A u \in Uuids :
            (calls[u] = NoCall /\ calls'[u].pc = "raised")
                => UNCHANGED <<status, dedup, not_started, in_process, sqs_queue>>]_vars

\* C9, witness: a send_message call raised while an earlier envelope is
\* queued
C9_Witness ==
    /\ \E u \in Uuids : calls[u].pc = "raised"
    /\ Queued # {}

\* ------------------------------------------------------------------ crash recovery
\* The list backend with workers that die: callers submit, workers pull, run,
\* write and sweep, a worker process may die, a job timeout or the TTL of a
\* StatusRecord may run out.  No call to Redis fails.
RecoveryInit == Init /\ queue_service = "redis"

RecoveryNext ==
    \/ \E j \in JobArgs, r \in Requests : SendEnqueue(j, r[1], r[2])
    \/ \E u \in Uuids : SendStatus(u)
    \/ \E w \in Workers, j \in JobNames : RedisPull(w, j)
    \/ \E w \in Workers : HandlerReturns(w)
    \/ \E w \in Workers : HandlerRaises(w)
    \/ \E w \in Workers : Resume(w)
    \/ \E w \in Workers : StatusWrite(w)
    \/ \E w \in Workers, j \in JobNames : Sweep(w, j)
    \/ \E w \in Workers : Crash(w)
    \/ \E u \in Uuids : StatusExpires(u)
    \/ \E j \in JobNames, i \in 1..MaxSubmits : TimeoutElapses(j, i)

\* a step of an iteration of __redis_pull_messages_and_run_jobs__
PullStep ==
    \E w \in Workers :
        \/ HandlerReturns(w)
        \/ HandlerRaises(w)
        \/ Resume(w)
        \/ StatusWrite(w)
        \/ \E j \in JobNames : RedisPull(w, j)

\* a call of __verify_processing__ that changes a list
SweepStep == \E w \in Workers, j \in JobNames : Sweep(w, j)

\* the condition under which SweepStep can change a list
SweepPossible ==
    \E w \in Workers, j \in JobNames :
        /\ wk[w].pc = "idle"
        /\ in_process[j] # <<>>
        /\ SweepLoop(<<in_process[j], not_started[j]>>, SweepBatch)
                # <<in_process[j], not_started[j]>>

\* the worker loops make progress: while a live worker has a step of a pull
\* iteration to take, some worker takes one, and while a sweep has something
\* to do, some worker sweeps (weak fairness of SweepStep, with its enabling
\* condition written out).  Nothing is assumed of the callers of
\* send_message, of crashes or of the passing of time.
Fairness ==
    /\ WF_vars(PullStep)
    /\ []<>(~SweepPossible) \/ []<><<SweepStep>>_vars

RecoverySpec == RecoveryInit /\ [][RecoveryNext]_vars /\ Fairness

\* the worker that took the envelope of uuid u died before its status write,
\* and the entry of u in an in-process list has the given start_time
Orphaned(u, start_time) ==
    /\ queue_service = "redis"
    /\ \E w \in Workers : wk[w].pc = "dead" /\ wk[w].job # PyNone /\ Uuid(w) = u
    /\ \E j \in JobNames : \E i \in 1..Len(in_process[j]) :
            in_process[j][i].uuid = u /\ in_process[j][i].start_time = start_time

KeyOf(u) == calls[u].items.cache_key

\* the uuids submitted with cache_key k
Submissions(k) == {u \in Uuids : Enqueued(u) /\ KeyOf(u) = k}

\* the number of calls of the job function for the uuids in S
RECURSIVE Invocations(_)
Invocations(S) ==
    IF S = {} THEN 0
    ELSE LET u == CHOOSE u \in S : TRUE IN invoked[u] + Invocations(S \ {u})

\* worker w takes in this step an envelope whose cache_key was submitted
\* before under a uuid that is done, and whose DedupEntry is still there
TakesAfterDone(w) ==
    /\ Takes(w)
    /\ wk'[w].body.cache_key # PyNone
    /\ dedup[wk'[w].body.cache_key] # NoRecord
    /\ \E u \in Submissions(wk'[w].body.cache_key) : u # wk'[w].body.uuid /\ Done(u)

MaxJobs == 2

\* the limits of a job timeout, 10 and 3600 * 5
MinTimeout == 10
MaxTimeout == 18000

\* a job timeout that is an int or a float with value v
Num(v) == [kind |-> "num", v |-> v]
\* float('nan'): an instance of float that is neither below nor above anything
NaN == [kind |-> "nan"]
\* a timeout that is neither int nor float, such as '30'
NotNumber == [kind |-> "str"]
Timeouts == {Num(MinTimeout - 1), Num(MinTimeout), Num(MaxTimeout), Num(MaxTimeout + 1), NaN, NotNumber}

\* a key of the jobs dict that is not a str, such as 3
IntName == "int:3"
DictKeys == {"job1", "job2", IntName}

\* the items of a jobs dict: job_name, len(job_info), job_info[1]
JobItems == [job_name : DictKeys, len : {2, 3}, timeout : Timeouts]

\* jobs dicts in insertion order, a key at most once
JobsDicts ==
    {jobs \in UNION {[1..n -> JobItems] : n \in 0..MaxJobs} :
        \A i, k \in 1..Len(jobs) : i # k => jobs[i].job_name # jobs[k].job_name}

\* str.lower() on the values of queue_service that are tried
Lower(s) == IF s = "SQS" THEN "sqs" ELSE IF s = "Redis" THEN "redis" ELSE s
QueueServices == {"sqs", "SQS", "redis", "Redis", "kafka"}

\* isinstance(x, (int, float))
IsNumber(t) == t.kind \in {"num", "nan"}
\* t < n and t > n of Python: every comparison with nan is False
Below(t, n) == t.kind = "num" /\ t.v < n
Above(t, n) == t.kind = "num" /\ t.v > n
\* a > b between two timeouts
Greater(a, b) == a.kind = "num" /\ b.kind = "num" /\ a.v > b.v

ValueError(message) == [ok |-> FALSE, error |-> "ValueError", message |-> message]

\* the checks on one item of the jobs dict: the error raised or PyNone
CheckJob(item) ==
    IF item.len # 2 THEN "Job info should be provided as a tuple"
    ELSE IF item.job_name = IntName THEN "Job name must be a string value"
    ELSE IF ~IsNumber(item.timeout) THEN "Job timeout needs to be an integer or float"
    ELSE IF Below(item.timeout, MinTimeout) THEN "Job timeout needs to be at least 10 seconds"
    ELSE IF Above(item.timeout, MaxTimeout) THEN "Job timeout needs to be no more than 5 hours"
    ELSE PyNone

\* the for loop over self.jobs.items(): the first error or PyNone
RECURSIVE CheckJobs(_)
CheckJobs(jobs) ==
    IF jobs = <<>> THEN PyNone
    ELSE IF CheckJob(Head(jobs)) # PyNone THEN CheckJob(Head(jobs))
    ELSE CheckJobs(Tail(jobs))

\* max() of Python over a list that is not empty: keeps the first item
\* unless a later one compares greater
RECURSIVE PyMax(_, _)
PyMax(best, rest) ==
    IF rest = <<>> THEN best
    ELSE PyMax(IF Greater(Head(rest), best) THEN Head(rest) ELSE best, Tail(rest))

\* LongRunningJobs(jobs=jobs, queue_service=queue_service): the engine or
\* the error raised by __post_init__
PostInit(jobs, service) ==
    IF Lower(service) \notin {"sqs", "redis"}
    THEN ValueError("queue_service must be either 'sqs' or 'redis'.")
    ELSE IF CheckJobs(jobs) # PyNone THEN ValueError(CheckJobs(jobs))
    ELSE IF jobs = <<>> THEN ValueError("max() arg is an empty sequence")
    ELSE [ok |-> TRUE,
          queue_service |-> Lower(service),
          job_names |-> {jobs[i].job_name : i \in 1..Len(jobs)},
          jobs |-> jobs,
          longest_job_timeout |-> PyMax(jobs[1].timeout, [i \in 1..(Len(jobs) - 1) |-> jobs[i + 1].timeout]),
          stop |-> FALSE]

NoOut == [ok |-> FALSE, error |-> PyNone]

\* the arguments of a constructor call
CtorArgs == [fn : {"LongRunningJobs"}, jobs : JobsDicts, queue_service : QueueServices]

\* the constructor is called with the arguments held in api
Construct ==
    /\ api.op = "args"
    /\ api.args.fn = "LongRunningJobs"
    /\ api' = [op |-> "called", args |-> api.args,
               out |-> PostInit(api.args.jobs, api.args.queue_service)]
    /\ UNCHANGED <<posts, loop, queue_service, elapsed, faults, status, dedup, not_started,
                   in_process, sqs_queue, calls, wk, invoked>>

\* bound: number of entries of a params dict
MaxParams == 2

\* the values of a params dict
Null == [t |-> "none"]
PyInt(n) == [t |-> "int", n |-> n]
PyStr(s) == [t |-> "str", s |-> s]
PyList(items) == [t |-> "list", items |-> items]
PyDict(items) == [t |-> "dict", items |-> items]
Values ==
    {Null, PyInt(1), PyInt(2), PyStr(""), PyStr("pytest"),
     PyList(<<>>), PyList(<<PyStr("redis"), PyStr("rocks")>>),
     PyDict(<<>>), PyDict(<< <<"x", PyInt(1)>>, <<"y", PyInt(2)>> >>),
     PyDict(<< <<"y", PyInt(2)>>, <<"x", PyInt(1)>> >>)}

\* the names of parameters and the keys of nested dicts, in the order of
\* Python's comparison of str
NameOrder == <<"a", "b", "c", "x", "y">>
ParamNames == {"a", "b", "c"}
Separators == {"|", "-"}

\* a dict in insertion order is a sequence of <<key, value>>, a key at most once
IsDict(items) == \A i, k \in 1..Len(items) : i # k => items[i][1] # items[k][1]
ParamsDicts ==
    {p \in UNION {[1..n -> ParamNames \X Values] : n \in 0..MaxParams} : IsDict(p)}
Keys(items) == {items[i][1] : i \in 1..Len(items)}
Get(items, k) == items[CHOOSE i \in 1..Len(items) : items[i][1] = k][2]

\* sorted(d.keys()), not the order of insertion
InsertionOrder(items) == [i \in 1..Len(items) |-> items[i][1]]
SortedKeys(items) == SelectSeq(NameOrder, LAMBDA n : n \in Keys(items))

\* str(n) for the integers tried
IntText(n) == IF n = 1 THEN "1" ELSE "2"

\* sep.join(parts) on texts kept as sequences of pieces
RECURSIVE JoinSeq(_, _)
JoinSeq(parts, sep) ==
    IF parts = <<>> THEN <<>>
    ELSE IF Len(parts) = 1 THEN parts[1]
    ELSE parts[1] \o sep \o JoinSeq(Tail(parts), sep)

\* orjson.dumps(v, option=orjson.OPT_SORT_KEYS).decode(), as a sequence of
\* pieces with every double quote a piece of its own
RECURSIVE OrjsonDumps(_)
OrjsonDumps(v) ==
    CASE v.t = "none" -> <<"null">>
      [] v.t = "int" -> <<IntText(v.n)>>
      [] v.t = "str" -> <<"\"", v.s, "\"">>
      [] v.t = "list" ->
            <<"[">> \o JoinSeq([i \in 1..Len(v.items) |-> OrjsonDumps(v.items[i])], <<",">>) \o <<"]">>
      [] v.t = "dict" ->
            LET keys == SortedKeys(v.items)
            IN  <<"{">>
                \o JoinSeq([i \in 1..Len(keys) |->
                              <<"\"", keys[i], "\"", ":">> \o OrjsonDumps(Get(v.items, keys[i]))],
                           <<",">>)
                \o <<"}">>

\* text.replace('"', '')
ReplaceQuotes(text) == SelectSeq(text, LAMBDA c : c # "\"")

\* the str made of the pieces
RECURSIVE Concat(_)
Concat(text) == IF text = <<>> THEN "" ELSE Head(text) \o Concat(Tail(text))

\* params[k] != [] and params[k] is not None, negated
SkippedOnlyNone(v) == v = Null
Skipped(v) == v = PyList(<<>>) \/ v = Null

\* build_cache_key(params, separator)
build_cache_key(params, separator) ==
    LET keys == SelectSeq(SortedKeys(params), LAMBDA k : ~Skipped(Get(params, k)))
    IN  Concat(JoinSeq([i \in 1..Len(keys) |->
                          ReplaceQuotes(<<keys[i], "=">> \o OrjsonDumps(Get(params, keys[i])))],
                       <<separator>>))

\* the arguments of a call of build_cache_key
KeyArgs == [fn : {"build_cache_key"}, params : ParamsDicts, separator : Separators]

\* build_cache_key is called with the arguments held in api
BuildCacheKey ==
    /\ api.op = "args"
    /\ api.args.fn = "build_cache_key"
    /\ api' = [op |-> "called", args |-> api.args,
               out |-> build_cache_key(api.args.params, api.args.separator)]
    /\ UNCHANGED <<posts, loop, queue_service, elapsed, faults, status, dedup, not_started,
                   in_process, sqs_queue, calls, wk, invoked>>

\* a call of one of the two functions, with arguments of every kind
ApiInit ==
    /\ queue_service = "sqs"
    /\ elapsed = 0
    /\ faults = 0
    /\ status = [u \in Uuids |-> NoRecord]
    /\ dedup = [k \in CacheKeys |-> NoRecord]
    /\ not_started = [j \in JobNames |-> <<>>]
    /\ in_process = [j \in JobNames |-> <<>>]
    /\ sqs_queue = <<>>
    /\ calls = [u \in Uuids |-> NoCall]
    /\ wk = [w \in Workers |-> IdleWorker]
    /\ invoked = [u \in Uuids |-> 0]
    /\ loop = [w \in Workers |-> FreeLoop]
    /\ api \in [op : {"args"}, args : CtorArgs \cup KeyArgs, out : {NoOut}]
    /\ posts = <<>>

ApiNext == Construct \/ BuildCacheKey

ApiSpec == ApiInit /\ [][ApiNext]_vars

\* ------------------------------------------------------------ C11 .. C16
Constructed == api.op = "called" /\ api.args.fn = "LongRunningJobs"
KeyBuilt == api.op = "called" /\ api.args.fn = "build_cache_key"

\* the timeout is a number from 10 to 18000
InRange(t) == t.kind = "num" /\ t.v >= MinTimeout /\ t.v <= MaxTimeout

\* C11: the constructor raises an error when the jobs dict is empty, when a
\* job name is not a string, when a timeout is not numeric, or when a
\* timeout is below 10 or above 18000; it succeeds for every other jobs
\* dict, so that every job of a constructed engine has a timeout from 10 to
\* 18000.
C11_ConstructedTimeoutsInRange ==
    Constructed /\ Lower(api.args.queue_service) \in {"sqs", "redis"} =>
        LET jobs == api.args.jobs
        IN  /\ api.out.ok <=>
                /\ jobs # <<>>
                /\ \A i \in 1..Len(jobs) :
                        /\ jobs[i].len = 2
                        /\ jobs[i].job_name # IntName
                        /\ InRange(jobs[i].timeout)
            /\ api.out.ok => \A i \in 1..Len(api.out.jobs) : InRange(api.out.jobs[i].timeout)

\* the same dict with its entries, and the entries of its nested dicts, in
\* another order of insertion
Perms(s) ==
    {[i \in 1..Len(s) |-> s[f[i]]] :
        f \in {g \in [1..Len(s) -> 1..Len(s)] : \A i, k \in 1..Len(s) : i # k => g[i] # g[k]}}
Variants(v) == IF v.t = "dict" THEN {PyDict(q) : q \in Perms(v.items)} ELSE {v}
Reordered(r) ==
    {[i \in 1..Len(r) |-> <<r[i][1], vs[i]>>] :
        vs \in {c \in [1..Len(r) -> UNION {Variants(r[i][2]) : i \in 1..Len(r)}] :
                    \A i \in 1..Len(r) : c[i] \in Variants(r[i][2])}}
Orders(p) == UNION {Reordered(r) : r \in Perms(p)}

\* C15: build_cache_key returns the same key for two params dicts with the
\* same names and values, whatever the order of insertion of the names and
\* of the keys of nested dicts.
C15_KeyIgnoresInsertionOrder ==
    KeyBuilt =>
        \A q \in Orders(api.args.params) :
            build_cache_key(q, api.args.separator) = api.out

\* C15, witness: the key of {b: {y: 2, x: 1}, a: 1} was built
C15_Witness ==
    /\ KeyBuilt
    /\ api.args.params = << <<"b", PyDict(<< <<"y", PyInt(2)>>, <<"x", PyInt(1)>> >>)>>, <<"a", PyInt(1)>> >>
    /\ api.args.separator = "|"
    /\ api.out = "a=1|b={x:1,y:2}"

\* the text of a value in a key, written out for the values tried
ValueText(v) ==
    CASE v = PyInt(1) -> "1"
      [] v = PyInt(2) -> "2"
      [] v = PyStr("") -> ""
      [] v = PyStr("pytest") -> "pytest"
      [] v = PyList(<<PyStr("redis"), PyStr("rocks")>>) -> "[redis,rocks]"
      [] v = PyDict(<<>>) -> "{}"
      [] v.t = "dict" /\ Len(v.items) = 2 -> "{x:1,y:2}"

\* the params dict with one more entry, inserted at position i
Put(p, i, name, v) == SubSeq(p, 1, i - 1) \o << <<name, v>> >> \o SubSeq(p, i, Len(p))

\* name=value for the names given, joined by the separator
RECURSIVE Joined(_, _, _)
Joined(names, p, separator) ==
    IF names = <<>> THEN ""
    ELSE LET first == Head(names) \o "=" \o ValueText(Get(p, Head(names)))
         IN  IF Len(names) = 1 THEN first
             ELSE first \o separator \o Joined(Tail(names), p, separator)

\* the key is that of the parameters whose value is not in empty, in sorted
\* order, and one more parameter with a value in empty does not change it
SkipsExactly(empty) ==
    KeyBuilt =>
        LET p == api.args.params
        IN  /\ \A a \in ParamNames \ Keys(p) : \A e \in empty : \A i \in 1..(Len(p) + 1) :
                    build_cache_key(Put(p, i, a, e), api.args.separator) = api.out
            /\ api.out = Joined(SelectSeq(NameOrder, LAMBDA n : n \in Keys(p) /\ Get(p, n) \notin empty),
                                p, api.args.separator)

\* C16: build_cache_key skips every parameter whose value is null or an
\* empty collection of any kind, the empty list and the empty map among
\* them: one more parameter with such a value does not change the key; every
\* other parameter appears as name=value, joined by the separator in sorted
\* order of the names.
C16_SkipsNullAndEmptyCollections == SkipsExactly({Null, PyList(<<>>), PyDict(<<>>)})

\* C16, as the code has it: the parameters skipped are those whose value is
\* null or the empty list; an empty map appears as name={}.
C16_SkipsNullAndEmptyList == SkipsExactly({Null, PyList(<<>>)})

\* C16, witness: the key of {b: pytest, a: null} was built and is that of
\* {b: pytest, a: null, c: []}
C16_Witness ==
    /\ KeyBuilt
    /\ api.args.params = << <<"b", PyStr("pytest")>>, <<"a", Null>> >>
    /\ api.out = "b=pytest"
    /\ build_cache_key(Put(api.args.params, 3, "c", PyList(<<>>)), api.args.separator) = api.out

(***************************************************************************)
(* start_worker on the list backend, statement by statement.  One engine   *)
(* runs one start_worker; loop[w] is its position: at the while test       *)
(* ("top"), before the pull of job name JobOrder[job] in polling round     *)
(* round ("pull"), before the sweep of JobOrder[job] ("sweep"), or after   *)
(* the loop ("exited"), together with the stop flag of the engine.         *)
(***************************************************************************)

\* the worker whose loop is followed
LoopWorker == "w1"

\* a loop that polls one job name only
FirstJobOnly == <<"job1">>

\* the order in which for job_name in self.job_names goes through the set
JobOrder == <<"job1", "job2">>

\* the fields of loop[w] besides the position: stop is self.stop, by tells
\* how the loop was left, taken counts the envelopes taken since stop_worker
\* was called
Started == [at |-> "top", round |-> 0, job |-> 0, stop |-> FALSE, by |-> PyNone, taken |-> 0]
AtTop(p) == [p EXCEPT !.at = "top", !.round = 0, !.job = 0]
AtPull(p, round, job) == [p EXCEPT !.at = "pull", !.round = round, !.job = job]
AtSweep(p, job) == [p EXCEPT !.at = "sweep", !.round = 0, !.job = job]
\* self.stop = False after the loop
Exited(p, by) == [p EXCEPT !.at = "exited", !.round = 0, !.job = 0, !.stop = FALSE, !.by = by]

\* a loop that tests the stop flag before every polling round
AfterPullTestsStop(p) ==
    IF p.job < Len(JobOrder) THEN AtPull(p, p.round, p.job + 1)
    ELSE IF p.stop THEN AtTop(p)
    ELSE IF p.round < PullRounds THEN AtPull(p, p.round + 1, 1)
    ELSE AtSweep(p, 1)

\* the position after a call of __redis_pull_messages_and_run_jobs__
AfterPull(p) ==
    IF p.job < Len(JobOrder) THEN AtPull(p, p.round, p.job + 1)
    ELSE IF p.round < PullRounds THEN AtPull(p, p.round + 1, 1)
    ELSE AtSweep(p, 1)

\* the position after a call of __verify_processing__
AfterSweep(p) ==
    IF p.job < Len(JobOrder) THEN AtSweep(p, p.job + 1) ELSE AtTop(p)

\* a stop_worker that ends the loop at once, whatever the worker is doing
StopWorkerPreempts(w) ==
    /\ loop[w].at \notin {"free", "exited"}
    /\ ~loop[w].stop
    /\ loop' = [loop EXCEPT ![w] = Exited(@, "stop")]
    /\ wk' = [wk EXCEPT ![w] = IdleWorker]
    /\ UNCHANGED <<posts, api, queue_service, elapsed, faults, status, dedup, not_started, in_process,
                   sqs_queue, calls, invoked>>

\* stop_worker()
StopWorker(w) ==
    /\ loop[w].at # "free"
    /\ ~loop[w].stop
    /\ loop' = [loop EXCEPT ![w].stop = TRUE, ![w].taken = 0]
    /\ UNCHANGED <<posts, api, queue_service, elapsed, faults, status, dedup, not_started, in_process,
                   sqs_queue, calls, wk, invoked>>

\* while not self.stop, and self.stop = False when the loop is left
WhileTest(w) ==
    /\ loop[w].at = "top"
    /\ wk[w].pc = "idle"
    /\ loop' = [loop EXCEPT ![w] = IF @.stop THEN Exited(@, "stop") ELSE AtPull(@, 1, 1)]
    /\ UNCHANGED <<posts, api, queue_service, elapsed, faults, status, dedup, not_started, in_process,
                   sqs_queue, calls, wk, invoked>>

\* __redis_pull_messages_and_run_jobs__(job_name) finds a message
LoopPull(w) ==
    /\ loop[w].at = "pull"
    /\ RedisTake(w, JobOrder[loop[w].job])
    /\ loop' = [loop EXCEPT ![w] = AfterPull([@ EXCEPT !.taken = IF loop[w].stop THEN @ + 1 ELSE @])]

\* __redis_pull_messages_and_run_jobs__(job_name) finds the list empty and
\* sleeps 0.1 seconds
LoopPullNothing(w) ==
    /\ loop[w].at = "pull"
    /\ queue_service = "redis"
    /\ wk[w].pc = "idle"
    /\ not_started[JobOrder[loop[w].job]] = <<>>
    /\ loop' = [loop EXCEPT ![w] = AfterPull(@)]
    /\ UNCHANGED <<posts, api, queue_service, elapsed, faults, status, dedup, not_started, in_process,
                   sqs_queue, calls, wk, invoked>>

\* __verify_processing__(job_name) in its turn
LoopSweep(w) ==
    /\ loop[w].at = "sweep"
    /\ \/ VerifyProcessing(w, JobOrder[loop[w].job])
       \/ /\ queue_service = "redis"
          /\ wk[w].pc = "idle"
          /\ in_process[JobOrder[loop[w].job]] = <<>>
          /\ UNCHANGED <<posts, api, queue_service, elapsed, faults, status, dedup, not_started,
                         in_process, sqs_queue, calls, wk, invoked>>
    /\ loop' = [loop EXCEPT ![w] = AfterSweep(@)]

\* a loop that an exception ends
LoopResumeExits(w) ==
    /\ loop[w].at \in {"pull", "sweep"}
    /\ wk[w].pc = "backoff"
    /\ wk' = [wk EXCEPT ![w] = IdleWorker]
    /\ loop' = [loop EXCEPT ![w] = Exited(@, "error")]
    /\ UNCHANGED <<posts, api, queue_service, elapsed, faults, status, dedup, not_started, in_process,
                   sqs_queue, calls, invoked>>

\* except Exception: the traceback is printed, asyncio.sleep(30) is over and
\* the while test comes next
LoopResume(w) ==
    /\ loop[w].at \in {"pull", "sweep"}
    /\ wk[w].pc = "backoff"
    /\ wk' = [wk EXCEPT ![w] = IdleWorker]
    /\ loop' = [loop EXCEPT ![w] = AtTop(@)]
    /\ UNCHANGED <<posts, api, queue_service, elapsed, faults, status, dedup, not_started, in_process,
                   sqs_queue, calls, invoked>>

\* except asyncio.CancelledError: the task of start_worker is cancelled
\* while it waits in the loop; the traceback is printed and the loop is left
Cancelled(w) ==
    /\ loop[w].at \in {"pull", "sweep"}
    /\ faults < MaxFaults
    /\ faults' = faults + 1
    /\ wk' = [wk EXCEPT ![w] = IdleWorker]
    /\ loop' = [loop EXCEPT ![w] = Exited(@, "cancelled")]
    /\ UNCHANGED <<posts, api, queue_service, elapsed, status, dedup, not_started, in_process,
                   sqs_queue, calls, invoked>>

\* one engine on the list backend whose start_worker has been called
LoopInit ==
    /\ queue_service = "redis"
    /\ elapsed = 0
    /\ faults = 0
    /\ status = [u \in Uuids |-> NoRecord]
    /\ dedup = [k \in CacheKeys |-> NoRecord]
    /\ not_started = [j \in JobNames |-> <<>>]
    /\ in_process = [j \in JobNames |-> <<>>]
    /\ sqs_queue = <<>>
    /\ calls = [u \in Uuids |-> NoCall]
    /\ wk = [w \in Workers |-> IdleWorker]
    /\ invoked = [u \in Uuids |-> 0]
    /\ loop = [w \in Workers |-> IF w = LoopWorker THEN Started ELSE FreeLoop]
    /\ api = NoApi
    /\ posts = <<>>

\* the requests submitted to the engine whose loop is followed
LoopRequests == {<<ParamsOk("42"), "k1">>, <<ParamsBad, PyNone>>}

\* a step of start_worker
LoopStep ==
    \/ WhileTest(LoopWorker)
    \/ LoopPull(LoopWorker)
    \/ LoopPullNothing(LoopWorker)
    \/ HandlerReturns(LoopWorker)
    \/ HandlerRaises(LoopWorker)
    \/ StatusWrite(LoopWorker)
    \/ LoopSweep(LoopWorker)
    \/ LoopResume(LoopWorker)

LoopNext ==
    \/ LoopStep
    \/ \E j \in JobNames, r \in LoopRequests : SendEnqueue(j, r[1], r[2])
    \/ \E u \in Uuids : SendStatus(u)
    \/ CacheSetFails(LoopWorker)
    \/ StatusWriteFails(LoopWorker)
    \/ StopWorker(LoopWorker)
    \/ Cancelled(LoopWorker)

\* start_worker goes on while it has not left the loop: every statement
\* ends, the handlers included (weak fairness of LoopStep, which is enabled
\* exactly while the loop has not been left)
LoopFairness == []<>(loop[LoopWorker].at = "exited") \/ []<><<LoopStep>>_vars

LoopSpec == LoopInit /\ [][LoopNext]_vars /\ LoopFairness

\* ------------------------------------------------------------ C12 .. C17
\* the loop of worker w has been left
HasExited(w) == loop[w].at = "exited"

\* start_worker leaves the loop in this step
Exits(w) == ~HasExited(w) /\ loop'[w].at = "exited"

\* C12, as the spec states it: the stop flag is tested after every
\* iteration, so that a worker whose stop_worker has been called takes no
\* further envelope once the iteration in progress is over.
C12_StopEndsPolling ==
    [][loop[LoopWorker].at # "free" /\ loop[LoopWorker].stop => ~Takes(LoopWorker)]_vars

\* C12, as the code has it: the stop flag is tested once per pass of the
\* loop, a pass being ten polling rounds over every job name followed by the
\* sweep of every job name, and after a back-off.  A worker whose stop_worker
\* has been called goes on with the pass in progress, in which it still takes
\* envelopes and runs handlers; it starts no new pass, leaves the loop at the
\* while test and takes nothing after that.
C12_StopEndsPollingAfterThePass ==
    [][LET w == LoopWorker
           p == loop[w]
           q == loop'[w]
       IN  /\ (p.stop /\ p.at = "top" /\ q # p) => q.at = "exited"
           /\ (p.stop /\ p.at # "top" /\ q.at = "pull") =>
                    /\ p.at = "pull"
                    /\ q.round > p.round \/ (q.round = p.round /\ q.job >= p.job)
           /\ (p.at = "pull" /\ q.at = "top") => wk[w].pc = "backoff"
           /\ HasExited(w) => (HasExited(w)' /\ wk'[w] = wk[w])
           /\ Takes(w) => p.at = "pull"]_vars

\* C12, witness: the worker is in the handler of an envelope that it took
\* in the pass in progress after stop_worker was called
C12_Witness ==
    /\ loop[LoopWorker].at = "pull"
    /\ loop[LoopWorker].stop
    /\ loop[LoopWorker].taken = 1
    /\ wk[LoopWorker].pc = "run"

\* C13: after stop_worker the loop is left at last; a handler that is
\* running when the flag is set is not interrupted: the loop is left by the
\* stop flag only between iterations, and the result of the handler has been
\* written to the StatusRecord before, unless the write or the write of the
\* DedupEntry fails or the task is cancelled.
C13_StopIsCooperative ==
    /\ (loop[LoopWorker].stop ~> HasExited(LoopWorker))
    /\ [][Exits(LoopWorker) /\ loop'[LoopWorker].by = "stop"
            => wk[LoopWorker].pc = "idle" /\ wk'[LoopWorker] = wk[LoopWorker]]_vars
    /\ \A u \in Uuids :
          (/\ loop[LoopWorker].stop
           /\ wk[LoopWorker].pc = "run"
           /\ Uuid(LoopWorker) = u
           /\ ~JobRaises(Body(LoopWorker).params))
          ~> \/ Done(u) /\ status[u].results = JobResult(status[u].params) /\ ~HasExited(LoopWorker)
             \/ wk[LoopWorker].pc = "backoff"
             \/ loop[LoopWorker].by = "cancelled"

\* C13, witness: the loop was left by the stop flag after the envelope that
\* the worker took since stop_worker was called was done
C13_Witness ==
    /\ HasExited(LoopWorker)
    /\ loop[LoopWorker].by = "stop"
    /\ loop[LoopWorker].taken = 1
    /\ faults = 0
    /\ \E u \in Uuids : Done(u) /\ invoked[u] = 1
    /\ \A u \in Uuids : Enqueued(u) => Done(u)

\* an exception leaves the iteration of worker w in this step
Fails(w) == wk[w].pc # "backoff" /\ wk'[w].pc = "backoff"

FailedWrite(u) ==
    /\ \E j \in JobNames : Holds(in_process[j], u)
    /\ ~JobRaises(JobParams(u))
    /\ ~Done(u)
    /\ ~\E w \in Workers : wk[w].pc \in {"run", "post"} /\ Uuid(w) = u

C17_EveryJobNameIsServed ==
    /\ [][LET p == loop[LoopWorker]
              q == loop'[LoopWorker]
              polled == {JobOrder[k] : k \in 1..p.job}
          IN  (p.at = "pull" /\ q.at \in {"pull", "sweep"} /\ <<q.at, q.round, q.job>> # <<p.at, p.round, p.job>>)
                => \/ q.at = "pull" /\ q.round = p.round /\ JobOrder[q.job] \in JobNames \ polled
                   \/ (q.at = "sweep" \/ q.round = p.round + 1) /\ polled = JobNames]_vars
    /\ \A u \in Uuids :
          (/\ \E j \in JobNames : Holds(not_started[j], u)
           /\ ~JobRaises(JobParams(u)))
          ~> \/ Done(u)
             \/ FailedWrite(u)
             \/ HasExited(LoopWorker)

\* C17, witness: the envelope of job2 is done while one of job1 waits
C17_Witness ==
    /\ \E u \in Uuids : Done(u) /\ status[u].job_name = "job2" /\ invoked[u] = 1
    /\ \E v \in Uuids : Holds(not_started["job1"], v)
    /\ ~HasExited(LoopWorker)

\* ------------------------------------------------------------ C18 .. C20
\* the envelope of uuid u is in a not-started or in-process list
InLists(u) ==
    \E j \in JobNames : Holds(not_started[j], u) \/ Holds(in_process[j], u)

\* the process of worker w dies in this step
Dies(w) == wk[w].pc # "dead" /\ wk'[w].pc = "dead"

\* C18: at least once on the list backend: the envelope of a submitted uuid
\* whose StatusRecord is there and not done is still in the not-started or
\* in-process list after a worker has died, at whatever point of its
\* iteration or sweep, between a pop and the push that follows it included.
C18_CrashKeepsEnvelope ==
    [][\A u \in Uuids :
          (/\ queue_service = "redis"
           /\ Returned(u) /\ Pending(u) /\ InLists(u)
           /\ \E w \in Workers : Dies(w))
          => InLists(u)']_vars

(***************************************************************************)
(* __verify_processing__ on in-process lists of every shape: the lists and *)
(* the StatusRecords are drawn from the states that submissions, pulls,    *)
(* crashes and the passing of time lead to, some of them longer than the   *)
(* ten entries that one call looks at.                                     *)
(***************************************************************************)

\* bound: entries of the in-process list of job1
MaxEntries == 11

\* bound: entries of a list that are done, overdue or without StatusRecord
MaxSettled == 2

\* the uuids of the entries: 1..MaxEntries for job1, one more for job2
SweepUuids == 1..(MaxEntries + 1)

\* an entry is recent (not done, younger than the timeout), overdue (not
\* done, older than the timeout), done, or its StatusRecord has expired
Kinds == {"recent", "overdue", "done", "missing"}

\* the entry that a pull of the envelope of uuid u pushed to in-process
EntryOf(u, job_name, kind) ==
    [Stamp(Envelope(u, job_name, ParamsOk("42"), PyNone))
        EXCEPT !.start_time = IF kind = "overdue" THEN "overdue" ELSE "recent"]

\* the StatusRecord of uuid u: as send_message wrote it, as the worker wrote
\* it, or expired
RecordOf(u, job_name, kind) ==
    IF kind = "missing" THEN NoRecord
    ELSE IF kind = "done"
    THEN [results |-> "42", job_done |-> TRUE] @@ Stamp(Envelope(u, job_name, ParamsOk("42"), PyNone))
    ELSE Envelope(u, job_name, ParamsOk("42"), PyNone) @@ [job_done |-> FALSE, results |-> PyNone]

\* the kinds of the entries of a list of n entries
Layouts(n) ==
    {[i \in 1..n |-> IF i = a THEN ka ELSE IF i = b THEN kb ELSE "recent"] :
        a \in 1..n, b \in 1..n, ka \in Kinds, kb \in Kinds}
        \cup {[i \in 1..n |-> "recent"]}

SweepInit ==
    \E n \in 0..MaxEntries : \E kinds \in Layouts(n) : \E other \in {PyNone, "overdue", "done"} :
        /\ Cardinality({i \in 1..n : kinds[i] # "recent"}) <= MaxSettled
        /\ queue_service = "redis"
        /\ elapsed = 0
        /\ faults = 0
        /\ status = [u \in SweepUuids |->
                        IF u <= n THEN RecordOf(u, "job1", kinds[u])
                        ELSE IF u = MaxEntries + 1 /\ other # PyNone THEN RecordOf(u, "job2", other)
                        ELSE NoRecord]
        /\ dedup = [k \in CacheKeys |-> NoRecord]
        /\ not_started = [j \in JobNames |-> <<>>]
        /\ in_process = [j \in JobNames |->
                            IF j = "job1" THEN [i \in 1..n |-> EntryOf(i, j, kinds[i])]
                            ELSE IF other = PyNone THEN <<>>
                            ELSE <<EntryOf(MaxEntries + 1, j, other)>>]
        /\ sqs_queue = <<>>
        /\ calls = [u \in SweepUuids |-> NoCall]
        /\ wk = [w \in Workers |-> IdleWorker]
        /\ invoked = [u \in SweepUuids |-> 0]
        /\ loop = [w \in Workers |-> FreeLoop]
        /\ api = NoApi
        /\ posts = <<>>

\* one worker sweeps and pulls; its handlers return
SweepNext ==
    \/ \E j \in JobNames : Sweep(LoopWorker, j)
    \/ \E j \in JobNames : RedisPull(LoopWorker, j)
    \/ HandlerReturns(LoopWorker)
    \/ StatusWrite(LoopWorker)

\* a call of __verify_processing__(job_name) that changes a list, and the
\* condition under which there is one
SweepOf(job_name) == \E w \in Workers : Sweep(w, job_name)
CanSweep(job_name) ==
    /\ wk[LoopWorker].pc = "idle"
    /\ in_process[job_name] # <<>>
    /\ SweepLoop(<<in_process[job_name], not_started[job_name]>>, SweepBatch)
            # <<in_process[job_name], not_started[job_name]>>

\* the worker goes on: an iteration that has begun ends, and every pass of
\* start_worker sweeps every job name (weak fairness of the sweep of each job
\* name, with its enabling condition written out)
SweepFairness ==
    /\ WF_vars(PullStep)
    /\ \A j \in JobNames : []<>(~CanSweep(j)) \/ []<><<SweepOf(j)>>_vars

SweepSpec == SweepInit /\ [][SweepNext]_vars /\ SweepFairness

\* what __verify_processing__ has to do with entry msg: drop it, requeue it
\* or keep it
Outcome(msg) ==
    IF status[msg.uuid] = NoRecord \/ status[msg.uuid].job_done THEN "drop"
    ELSE IF msg.start_time = "overdue" THEN "requeue"
    ELSE "keep"

\* the number of entries of sequence q that are msg
Count(q, msg) == Cardinality({i \in 1..Len(q) : q[i] = msg})

\* a call of __verify_processing__ changes a list in this step
Sweeps == wk' = wk /\ elapsed' = elapsed /\ <<in_process, not_started>>' # <<in_process, not_started>>

\* the positions of the entries that a call on list q pops: the first ten
Popped(q) == 1..(IF Len(q) < SweepBatch THEN Len(q) ELSE SweepBatch)

\* the step is a sweep of job_name with the three outcomes of C19
SweptAsStated(job_name) ==
    LET q == in_process[job_name]
        requeued == SelectSeq([i \in Popped(q) |-> q[i]], LAMBDA msg : Outcome(msg) = "requeue")
    IN  /\ \A i \in Popped(q) :
              /\ Outcome(q[i]) = "drop" =>
                    /\ Count(in_process'[job_name], q[i]) = 0
                    /\ Count(not_started'[job_name], q[i]) = Count(not_started[job_name], q[i])
              /\ Outcome(q[i]) = "requeue" =>
                    /\ Count(in_process'[job_name], q[i]) = 0
                    /\ Count(not_started'[job_name], q[i]) = Count(not_started[job_name], q[i]) + 1
              /\ Outcome(q[i]) = "keep" =>
                    /\ Count(in_process'[job_name], q[i]) = 1
                    /\ Count(not_started'[job_name], q[i]) = Count(not_started[job_name], q[i])
        /\ \A i \in (1..Len(q)) \ Popped(q) : Count(in_process'[job_name], q[i]) = 1
        /\ Len(in_process'[job_name]) = Cardinality({i \in 1..Len(q) : i \notin Popped(q) \/ Outcome(q[i]) = "keep"})
        /\ not_started'[job_name] = not_started[job_name] \o requeued
        /\ \A other \in JobNames \ {job_name} :
              in_process'[other] = in_process[other] /\ not_started'[other] = not_started[other]
        /\ status' = status
        /\ dedup' = dedup
        /\ sqs_queue' = sqs_queue

\* C19: for every entry that a sweep pops from <job_name>-in-process exactly
\* one of three things happens: the entry is dropped when job_done is true
\* or the StatusRecord is missing; else it is pushed to <job_name>-not-started
\* when it is older than the timeout; else it is pushed back to
\* <job_name>-in-process unchanged.  The sweep of one job name changes no
\* list of another job name, no StatusRecord and no DedupEntry.
C19_SweepOutcomes == [][Sweeps => \E j \in JobNames : SweptAsStated(j)]_vars

\* C19, witness: one sweep of job1 dropped the entry of uuid 1 (done),
\* requeued that of uuid 2 (overdue) and kept that of uuid 3, with an entry
\* in the in-process list of job2
C19_Witness ==
    /\ in_process["job1"] = <<EntryOf(3, "job1", "recent")>>
    /\ not_started["job1"] = <<EntryOf(2, "job1", "overdue")>>
    /\ Done(1) /\ Pending(2) /\ Pending(3)
    /\ in_process["job2"] # <<>>
    /\ \A u \in SweepUuids : invoked[u] = 0

\* an entry of an in-process list that a sweep has to drop or to requeue
Due(msg) == Outcome(msg) # "keep"

NoDueEntry == \A j \in JobNames : \A i \in 1..Len(in_process[j]) : ~Due(in_process[j][i])

\* C20: while a worker runs, every entry of an in-process list is dropped
\* once its job is done (or its StatusRecord is gone) and moved to not-started
\* once it is older than the timeout and not done, however long the list: a
\* sweep takes the due entries among the first ten away and moves every entry
\* behind them ten places forward, and again and again no entry of an
\* in-process list is due.
C20_NoEntryStaysForever ==
    /\ [][Sweeps =>
            \A j \in JobNames :
                in_process'[j] # in_process[j] =>
                    /\ \A i \in Popped(in_process[j]) :
                          Due(in_process[j][i]) => Count(in_process'[j], in_process[j][i]) = 0
                    /\ \A i \in (1..Len(in_process[j])) \ Popped(in_process[j]) :
                          in_process'[j][i - SweepBatch] = in_process[j][i]]_vars
    /\ []<>NoDueEntry

\* C20, witness: of eleven entries the last one, which was done, has been
\* dropped by the second sweep
C20_Witness ==
    /\ Len(in_process["job1"]) = MaxEntries - 1
    /\ ~Holds(in_process["job1"], MaxEntries)
    /\ ~Holds(not_started["job1"], MaxEntries)
    /\ Done(MaxEntries)
    /\ \A u \in SweepUuids : invoked[u] = 0
    /\ \A u \in 1..(MaxEntries - 1) : Holds(in_process["job1"], u) /\ Pending(u)

(***************************************************************************)
(* The order of the writes and of the acknowledgement in an iteration of   *)
(* __sqs_pull_messages_and_run_jobs__.                                      *)
(***************************************************************************)

\* a message of uuid u is in the SQS queue q
InSqs(q, u) == \E i \in 1..Len(q) : q[i].body.uuid = u

\* worker w leaves the iteration in this step because a write to Redis failed
WriteFails(w) == wk[w].pc \in {"run", "post"} /\ wk'[w].pc = "backoff" /\ faults' # faults

\* C21: on the SQS backend a message leaves the queue only by the
\* delete_messages of a worker that has, in this iteration, written the
\* StatusRecord of its uuid with job_done = true and its result, and that has
\* before that, when it called the job function for an envelope with a
\* cache_key, stored the result under the cache_key; when one of the two
\* writes fails the worker leaves the iteration and the queue is unchanged.
C21_DeletedOnlyAfterWrites ==
    [][queue_service = "sqs" =>
        /\ \A u \in Uuids :
            (InSqs(sqs_queue, u) /\ ~InSqs(sqs_queue', u))
                => \E w \in Workers : wk[w].pc = "ack" /\ Uuid(w) = u /\ wk'[w].pc = "idle"
        /\ \A w \in Workers :
            /\ (wk[w].pc # "ack" /\ wk'[w].pc = "ack")
                => /\ wk[w].pc = "post"
                   /\ status'[Uuid(w)] # NoRecord
                   /\ status'[Uuid(w)].job_done
                   /\ status'[Uuid(w)].results = wk[w].data
            /\ (wk[w].pc # "post" /\ wk'[w].pc = "post" /\ wk'[w].ran)
                => /\ wk[w].pc = "run"
                   /\ Key(w) # PyNone => dedup'[Key(w)] = [text |-> Dumps(wk'[w].data)]
            /\ WriteFails(w)
                => /\ sqs_queue' = sqs_queue
                   /\ status' = status
                   /\ dedup' = dedup]_vars

\* C21, witness: on the SQS backend the job function was called for an
\* envelope with a cache_key, its result is stored under the cache_key, the
\* StatusRecord says job_done and the message has left the queue
C21_Witness ==
    \E u \in Uuids :
        /\ queue_service = "sqs"
        /\ Enqueued(u) /\ KeyOf(u) # PyNone
        /\ invoked[u] = 1
        /\ dedup[KeyOf(u)] = [text |-> "42"]
        /\ Done(u) /\ status[u].results = "42"
        /\ ~InSqs(sqs_queue, u)
        /\ \A w \in Workers : wk[w].pc = "idle"

\* ------------------------------------------------------------------ DedupEntry
\* worker w stores in this step what its job function returned
StoresResult(w) ==
    /\ wk[w].pc = "run"
    /\ ~JobRaises(Body(w).params)
    /\ Key(w) # PyNone
    /\ wk'[w].pc = "post"
    /\ dedup' = [dedup EXCEPT ![Key(w)] = [text |-> Dumps(JobResult(Body(w).params))]]

\* C22: a DedupEntry is created or overwritten only by a worker whose job
\* function returned, for an envelope with a cache_key, and with the value
\* returned; a job function that raises leaves every DedupEntry as it is;
\* an envelope without cache_key is run whatever the DedupEntries hold, and
\* its iteration changes none.
C22_DedupOnlyFromSuccessfulRun ==
    [][/\ \A k \in CacheKeys :
            (dedup'[k] # dedup[k] /\ dedup'[k] # NoRecord)
                => \E w \in Workers : StoresResult(w) /\ Key(w) = k
       /\ \A w \in Workers :
            /\ (wk[w].pc = "run" /\ JobRaises(Body(w).params) /\ wk'[w] # wk[w]) => dedup' = dedup
            /\ (Takes(w) /\ wk'[w].body.cache_key = PyNone)
                => /\ wk'[w].pc = "run"
                   /\ invoked'[wk'[w].body.uuid] = invoked[wk'[w].body.uuid] + 1
            /\ (wk[w].pc \in {"run", "post", "ack"} /\ Key(w) = PyNone /\ wk'[w] # wk[w])
                => dedup' = dedup]_vars

\* C22, witness: a DedupEntry holds the result 42 of a job function that
\* returned for an envelope with cache_key, and the job function was also
\* called for an envelope without cache_key; both are done
C22_Witness ==
    \E u, v \in Uuids :
        /\ Enqueued(u) /\ KeyOf(u) # PyNone /\ invoked[u] = 1
        /\ dedup[KeyOf(u)] = [text |-> "42"]
        /\ Done(u)
        /\ Enqueued(v) /\ KeyOf(v) = PyNone /\ invoked[v] = 1
        /\ Done(v)

\* ------------------------------------------------------------------ job timeout
\* what a step may do to a worker that is in the job function or behind it:
\* the job function returns (or raises), the status is written, or the process
\* dies
HandlerGoesOn(w) ==
    /\ wk[w].pc = "run" =>
        \/ wk'[w].pc = "dead"
        \/ /\ JobRaises(Body(w).params)
           /\ wk'[w].pc = "backoff"
        \/ /\ ~JobRaises(Body(w).params)
           /\ wk'[w] = [wk[w] EXCEPT !.pc = "post", !.data = JobResult(Body(w).params)]
    /\ wk[w].pc = "post" =>
        \/ wk'[w].pc = "dead"
        \/ /\ wk'[w].pc = "idle"
           /\ status'[Uuid(w)] # NoRecord
           /\ status'[Uuid(w)].job_done
           /\ status'[Uuid(w)].results = wk[w].data

\* C23: on the list backend the job timeout is only read by the sweep.  A
\* step in which an in-process entry becomes overdue or is requeued, or in
\* which another worker takes the requeued envelope, leaves the worker that
\* runs the job function as it is; a worker in the job function leaves it only
\* when the function returns or raises (or the process dies), and writes the
\* StatusRecord with the value returned.  With workers that keep taking
\* steps, a job function that returns is followed by the end of its iteration.
C23_TimeoutNeverInterrupts ==
    /\ [][\A w \in Workers :
            (wk[w].pc \in {"run", "post"} /\ wk'[w] # wk[w]) => HandlerGoesOn(w)]_vars
    /\ [][(elapsed' # elapsed \/ in_process' # in_process \/ not_started' # not_started)
            => \A w \in Workers : wk[w].pc \in {"run", "post"} => wk'[w] = wk[w]]_vars
    /\ \A w \in Workers :
            (wk[w].pc = "run" /\ ~JobRaises(Body(w).params)) ~> (wk[w].pc \in {"idle", "dead"})

\* C23, witness: the timeout of an envelope has elapsed while its job
\* function runs and a sweep has requeued it: the worker that took it first
\* (it holds the callback_url) is still in the job function, and the other
\* worker is in the job function for the same uuid
C23_Witness ==
    \E u \in Uuids : \E w, v \in Workers :
        /\ queue_service = "redis"
        /\ w # v
        /\ elapsed = 1 /\ faults = 0
        /\ invoked[u] = 2
        /\ wk[w].pc = "run" /\ wk[w].body.uuid = u /\ wk[w].callback_url = "url"
        /\ wk[v].pc = "run" /\ wk[v].body.uuid = u /\ wk[v].callback_url = ""
        /\ Pending(u)

\* ------------------------------------------------------------------ redelivery
\* message msg carries what was submitted under its uuid
AsSubmitted(msg) ==
    /\ msg.uuid \in Uuids
    /\ Enqueued(msg.uuid)
    /\ msg.job_name = calls[msg.uuid].items.job_name
    /\ msg.cache_key = calls[msg.uuid].items.cache_key
    /\ msg.params = calls[msg.uuid].items.params

\* C24: every message in a not-started list, pushed there by send_message or
\* pushed back by a sweep, is the envelope as it was submitted: it has the
\* uuid, job_name, cache_key and params of the send_message call, the
\* callback_url included.
C24_RequeuedIsOriginalEnvelope ==
    \A j \in JobNames : \A i \in 1..Len(not_started[j]) : AsSubmitted(not_started[j][i])

(***************************************************************************)
(* The POST requests to a callback_url.  The request is a task of the      *)
(* event loop that the iteration does not await: it ends well, ends with   *)
(* an exception that nothing retrieves, or does not end.                   *)
(***************************************************************************)

\* the request of task i returns
PostSucceeds(i) ==
    /\ i \in 1..Len(posts)
    /\ posts[i].state = "pending"
    /\ posts' = [posts EXCEPT ![i] = [@ EXCEPT !.state = "ok"]]
    /\ UNCHANGED <<api, loop, queue_service, elapsed, faults, status, dedup, not_started, in_process,
                   sqs_queue, calls, wk, invoked>>

\* the request of task i raises (connection refused, 30 seconds over)
PostFails(i) ==
    /\ i \in 1..Len(posts)
    /\ posts[i].state = "pending"
    /\ posts' = [posts EXCEPT ![i] = [@ EXCEPT !.state = "failed"]]
    /\ UNCHANGED <<api, loop, queue_service, elapsed, faults, status, dedup, not_started, in_process,
                   sqs_queue, calls, wk, invoked>>

\* envelopes with and without callback_url
CallbackRequests == {<<ParamsCallback("42"), PyNone>>, <<ParamsOk("42"), PyNone>>,
                     <<ParamsCallback("42"), "k1">>}

\* a step of an iteration of either backend
IterationStep ==
    \E w \in Workers :
        \/ \E j \in JobNames : RedisPull(w, j)
        \/ SqsReceive(w)
        \/ HandlerReturns(w)
        \/ StatusWrite(w)
        \/ SqsDelete(w)

CallbackNext ==
    \/ \E j \in JobArgs, r \in CallbackRequests : SendEnqueue(j, r[1], r[2])
    \/ \E u \in Uuids : SendStatus(u)
    \/ IterationStep
    \/ \E i \in 1..MaxTasks : PostSucceeds(i)
    \/ \E i \in 1..MaxTasks : PostFails(i)

\* the workers keep taking the steps of their iterations; nothing is assumed
\* of the requests
CallbackSpec == Init /\ [][CallbackNext]_vars /\ WF_vars(IterationStep)

\* the envelope submitted under uuid u has a callback_url
HasCallback(u) == Enqueued(u) /\ "callback_url" \in DOMAIN calls[u].items.params

\* C25: the request to the callback_url is not awaited.  A step in which a
\* request ends, well or not, changes nothing but the task; the iteration
\* goes from the result to the status write whatever the tasks do, writes
\* job_done = true with the result, creates a task exactly when the envelope
\* it took has a callback_url, and on the SQS backend deletes the message;
\* with workers that keep taking steps every iteration that has its result
\* ends, even when no request ever ends.  No task exists for an envelope
\* submitted without callback_url.
C25_CallbackIsFireAndForget ==
    /\ [](\A i \in 1..Len(posts) : HasCallback(posts[i].uuid))
    /\ [][\A w \in Workers :
            /\ (wk[w].pc = "post" /\ wk'[w] # wk[w])
                => /\ wk'[w].pc = IF queue_service = "sqs" THEN "ack" ELSE "idle"
                   /\ status'[Uuid(w)] # NoRecord
                   /\ status'[Uuid(w)].job_done
                   /\ status'[Uuid(w)].results = wk[w].data
                   /\ posts' = IF wk[w].callback_url # ""
                               THEN Append(posts, Task(Uuid(w), wk[w].data))
                               ELSE posts
            /\ (wk[w].pc = "ack" /\ wk'[w] # wk[w])
                => wk'[w].pc = "idle" /\ ~InSqs(sqs_queue', Uuid(w))]_vars
    /\ [][(posts' # posts /\ Len(posts') = Len(posts))
            => UNCHANGED <<status, dedup, not_started, in_process, sqs_queue, calls, wk, invoked>>]_vars
    /\ \A w \in Workers : (wk[w].pc = "post") ~> (wk[w].pc = "idle")

\* C25, witness: on the SQS backend the request for one uuid has failed and
\* the request for another has not ended; both uuids are done with their
\* result and their messages deleted
C25_Witness ==
    \E u, v \in Uuids :
        /\ queue_service = "sqs"
        /\ u # v
        /\ HasCallback(u) /\ HasCallback(v)
        /\ \E i \in 1..Len(posts) : posts[i].uuid = u /\ posts[i].state = "failed"
        /\ \E i \in 1..Len(posts) : posts[i].uuid = v /\ posts[i].state = "pending"
        /\ Done(u) /\ status[u].results = "42"
        /\ Done(v) /\ status[v].results = "42"
        /\ sqs_queue = <<>>
        /\ \A w \in Workers : wk[w].pc = "idle"

\* ------------------------------------------------------------------ the two lists
\* the positions of sequence q that hold a message of uuid u
EntriesIn(q, u) == {i \in 1..Len(q) : q[i].uuid = u}

\* the number of entries of uuid u in the not-started and in-process lists
RECURSIVE EntriesOf(_, _)
EntriesOf(u, names) ==
    IF names = {} THEN 0
    ELSE LET j == CHOOSE j \in names : TRUE
         IN  Cardinality(EntriesIn(not_started[j], u)) + Cardinality(EntriesIn(in_process[j], u))
                + EntriesOf(u, names \ {j})

\* C26: on the list backend every uuid has at most one entry in the
\* not-started and in-process lists taken together, whatever the workers,
\* their sweeps and the clock do; and it has no entry before it is submitted.
C26_AtMostOneEntry ==
    \A u \in Uuids :
        /\ EntriesOf(u, JobNames) <= 1
        /\ EntriesOf(u, JobNames) = 1 => Enqueued(u)

\* C26, witness: no process has died; the entry of a uuid whose job function
\* is still running was requeued by the sweep of the other worker, and is the
\* only entry of that uuid; the other uuid has its entry in in-process
C26_Witness ==
    \E u, v \in Uuids : \E w \in Workers :
        /\ queue_service = "redis"
        /\ faults = 0
        /\ u # v
        /\ wk[w].pc = "run" /\ wk[w].body.uuid = u
        /\ \E j \in JobNames : \E i \in EntriesIn(not_started[j], u) :
                "start_time" \in DOMAIN not_started[j][i]
        /\ EntriesOf(u, JobNames) = 1
        /\ \E j \in JobNames : EntriesIn(in_process[j], v) # {}

\* ------------------------------------------------------------------ expired records
\* a message of uuid u is pushed back to a not-started list in this step
Requeued(u) ==
    \E j \in JobNames :
        /\ EntriesIn(not_started'[j], u) # {}
        /\ EntriesIn(not_started[j], u) = {}
        /\ EntriesIn(in_process[j], u) # {}

\* a sweep looks in this step at the in-process entry of uuid u
Swept(u) ==
    /\ wk' = wk
    /\ elapsed' = elapsed
    /\ \E j \in JobNames :
        /\ in_process'[j] # in_process[j]
        /\ \E i \in EntriesIn(in_process[j], u) : i \in Popped(in_process[j])

\* C27: a sweep pushes an in-process entry back to not-started only when the
\* StatusRecord of its uuid exists (and says job_done = false, and the entry
\* is older than the job timeout); a sweep that finds no StatusRecord for an
\* entry drops it, timed out or not, and a uuid without entry in either list
\* never gets one again and its job function is not called again.
C27_RequeueNeedsStatusRecord ==
    [][\A u \in Uuids :
        /\ Requeued(u) =>
            /\ Pending(u)
            /\ \E j \in JobNames : \E i \in EntriesIn(in_process[j], u) : TimedOut(in_process[j][i])
        /\ (Swept(u) /\ status[u] = NoRecord) => EntriesOf(u, JobNames)' = 0
        /\ (Enqueued(u) /\ EntriesOf(u, JobNames) = 0)
            => (EntriesOf(u, JobNames)' = 0 /\ invoked'[u] = invoked[u])]_vars

\* C27, witness: the worker that took the envelope died in the job function,
\* the StatusRecord that send_message wrote has expired, a sweep has dropped
\* the in-process entry: the uuid is in no list, its job function was called
\* once and no live worker holds it
C27_Witness ==
    \E u \in Uuids : \E w \in Workers :
        /\ queue_service = "redis"
        /\ Returned(u)
        /\ wk[w].pc = "dead" /\ wk[w].job # PyNone /\ wk[w].body.uuid = u /\ wk[w].ran
        /\ status[u] = NoRecord
        /\ EntriesOf(u, JobNames) = 0
        /\ invoked[u] = 1
        /\ \A v \in Workers \ {w} : wk[v].pc = "idle"

\* ------------------------------------------------------------------ failed submissions
\* send_message returned an error for the call that generated uuid u, after
\* it had pushed the envelope
ErrorAfterPush(u) ==
    /\ calls[u].pc = "returned"
    /\ "items" \in DOMAIN calls[u]
    /\ DOMAIN calls[u].result = {"error"}

\* C28: when the initial hmset of send_message raises after the push, the
\* call returns an error and no uuid, and the step changes no queue, no list
\* and no StatusRecord: the envelope stays where it is.  Workers treat it as
\* any other envelope: whenever a record says job_done for such a uuid, a
\* worker wrote it for the envelope that was pushed.
C28_ErrorAfterPushLeavesEnvelope ==
    /\ [][\A u \in Uuids :
            (calls[u].pc = "queued" /\ calls'[u] # calls[u] /\ faults' # faults)
                => /\ calls'[u].pc = "returned"
                   /\ calls'[u].result = [error |-> "hmset failed"]
                   /\ calls'[u].items = calls[u].items
                   /\ UNCHANGED <<sqs_queue, not_started, in_process, status, dedup, wk>>]_vars
    /\ [](\A u \in Uuids :
            ErrorAfterPush(u) =>
                /\ status[u] # NoRecord =>
                    /\ status[u].job_done
                    /\ status[u].uuid = u
                    /\ status[u].job_name = calls[u].items.job_name
                /\ ~Returned(u))

\* C28, witness: send_message returned an error for a call whose envelope it
\* had pushed; a worker has called the job function for that envelope and
\* written the StatusRecord with job_done = true and the result
C28_Witness ==
    \E u \in Uuids :
        /\ ErrorAfterPush(u)
        /\ invoked[u] = 1
        /\ Done(u) /\ status[u].results = "42"
        /\ check_job_status(u).job_done
        /\ \A w \in Workers : wk[w].pc = "idle"

(***************************************************************************)
(* Cache hits.  One worker handles the envelopes one after the other, so   *)
(* that what an iteration reads from the cache is what the iterations      *)
(* before it have stored.                                                  *)
(***************************************************************************)

\* job functions that return None or 42, with and without cache_key
CacheRequests == {<<ParamsOk(PyNone), "k1">>, <<ParamsOk("42"), "k1">>, <<ParamsOk("42"), PyNone>>}

CacheNext ==
    \/ \E j \in JobArgs, r \in CacheRequests : SendEnqueue(j, r[1], r[2])
    \/ \E u \in Uuids : SendStatus(u)
    \/ \E j \in JobNames : RedisPull(LoopWorker, j)
    \/ SqsReceive(LoopWorker)
    \/ HandlerReturns(LoopWorker)
    \/ StatusWrite(LoopWorker)
    \/ SqsDelete(LoopWorker)
    \/ \E k \in CacheKeys : CacheExpires(k)

CacheSpec == Init /\ [][CacheNext]_vars

\* the DedupEntry of cache_key k holds a value other than null
HoldsResult(k) == dedup[k] # NoRecord /\ dedup[k].text # "null"

\* C29: a worker that takes an envelope with a cache_key skips the job
\* function exactly when the DedupEntry of the key holds a value other than
\* null, and otherwise (no entry, or an entry that holds null) calls it; a job
\* function that returns None for an envelope with a cache_key stores null.
C29_NullIsNeverAHit ==
    [][\A w \in Workers :
        /\ (Takes(w) /\ wk'[w].body.cache_key # PyNone) =>
            LET k == wk'[w].body.cache_key
                u == wk'[w].body.uuid
            IN  /\ HoldsResult(k) <=> (invoked' = invoked /\ wk'[w].pc = "post" /\ ~wk'[w].ran)
                /\ ~HoldsResult(k) <=> (invoked'[u] = invoked[u] + 1 /\ wk'[w].pc = "run")
        /\ (wk[w].pc = "run" /\ wk'[w].pc = "post" /\ Key(w) # PyNone
                /\ JobResult(Body(w).params) = PyNone)
            => dedup'[Key(w)] = [text |-> "null"]]_vars

\* C29, witness: no TTL has run out, the DedupEntry of a cache_key holds null,
\* the two envelopes submitted with that key were handled one after the
\* other and are done with the result None, and the job function was called
\* once for each of them
C29_Witness ==
    \E k \in CacheKeys : \E u, v \in Submissions(k) :
        /\ u # v
        /\ elapsed = 0 /\ faults = 0
        /\ dedup[k] = [text |-> "null"]
        /\ Done(u) /\ status[u].results = PyNone /\ invoked[u] = 1
        /\ Done(v) /\ status[v].results = PyNone /\ invoked[v] = 1

(***************************************************************************)
(* The order of the not-started list: one worker on the list backend,      *)
(* callers that submit to both job names, job functions that return or     *)
(* raise, a job timeout that may run out, sweeps at any time.              *)
(***************************************************************************)

\* envelopes without cache_key, so that every take calls the job function
FifoRequests == {<<ParamsOk("42"), PyNone>>, <<ParamsBad, PyNone>>}

FifoInit == Init /\ queue_service = "redis"

FifoNext ==
    \/ \E j \in JobNames, r \in FifoRequests : SendEnqueue(j, r[1], r[2])
    \/ \E u \in Uuids : SendStatus(u)
    \/ \E j \in JobNames : RedisPull(LoopWorker, j)
    \/ HandlerReturns(LoopWorker)
    \/ HandlerRaises(LoopWorker)
    \/ Resume(LoopWorker)
    \/ StatusWrite(LoopWorker)
    \/ \E j \in JobNames : Sweep(LoopWorker, j)
    \/ \E j \in JobNames, i \in 1..MaxSubmits : TimeoutElapses(j, i)

FifoSpec == FifoInit /\ [][FifoNext]_vars

\* a message as send_message pushed it: it was in no in-process list yet
Fresh(msg) == "start_time" \notin DOMAIN msg

\* sequence q is sequence p with messages added at its tail
Extends(q, p) == Len(q) > Len(p) /\ SubSeq(q, 1, Len(p)) = p

\* C30: on the list backend with one worker, the envelopes of a job name that
\* wait for their first delivery are in the not-started list in the order in
\* which they were submitted (uuids count the submissions), the worker takes
\* the message at the head, and every other change of the list, a submission
\* or a requeue by a sweep, adds at the tail; so no envelope starts executing
\* before an envelope of its job name that was submitted earlier.
C30_FifoPerJobName ==
    /\ [](\A j \in JobNames :
            /\ \A a, b \in 1..Len(not_started[j]) :
                (a < b /\ Fresh(not_started[j][a]) /\ Fresh(not_started[j][b]))
                    => not_started[j][a].uuid < not_started[j][b].uuid
            /\ \A u, v \in Uuids :
                (u < v /\ Enqueued(u) /\ Enqueued(v) /\ invoked[v] > 0
                    /\ calls[u].items.job_name = j /\ calls[v].items.job_name = j)
                    => invoked[u] > 0)
    /\ [][\A j \in JobNames :
            /\ \A w \in Workers :
                (Takes(w) /\ wk'[w].job = j)
                    => /\ not_started[j] # <<>>
                       /\ wk'[w].body.uuid = Head(not_started[j]).uuid
                       /\ not_started'[j] = Tail(not_started[j])
            /\ (not_started'[j] # not_started[j] /\ wk' = wk)
                    => Extends(not_started'[j], not_started[j])]_vars

\* C30, witness: the worker took the envelope submitted first, its job
\* function raised, and after the timeout a sweep has requeued it while the
\* envelope submitted second was waiting: the requeued message is behind it
C30_Witness ==
    \E j \in JobNames :
        /\ Len(not_started[j]) = 2
        /\ Fresh(not_started[j][1]) /\ not_started[j][1].uuid = 2
        /\ ~Fresh(not_started[j][2]) /\ not_started[j][2].uuid = 1
        /\ invoked[1] = 1 /\ invoked[2] = 0
        /\ wk[LoopWorker].pc = "idle"

====
